---- MODULE Spec2Model ----
(***************************************************************************)
(* Position ledger (src/src/PositionTracker.ts) and the interval-driven    *)
(* trading loop that drives it (src/src/index.ts, class TradingBot).       *)
(*                                                                         *)
(* Numbers.  Every real quantity of the program is kept as an integer      *)
(* count of thousandths: a price 8 is 0.008, the erosion cap 8 is the      *)
(* configured 0.008, a trigger 45 is 0.045.  Volumes are whole units, so   *)
(* (price - entry) * volume is again in thousandths.  profitPct is the     *)
(* only quotient the ledger stores; it is kept as the exact fraction       *)
(* num / den.                                                              *)
(*                                                                         *)
(* Fields of Position that no ledger operation reads or rewrites after     *)
(* construction (entryTime, exitTime, aiReasoning, adx, regime) are not    *)
(* carried.                                                                *)
(***************************************************************************)
EXTENDS Integers, Sequences, FiniteSets, TLC

VARIABLES
    positions,        \* PositionTracker.positions : pair -> Position | NoPosition
    closedPositions,  \* PositionTracker.closedPositions : Seq(Position)
    disk,             \* contents of <dataDir>/positions.json ("closed" array)
    lastCall,         \* the ledger call made by the last step and what it returned
    opCount,          \* number of ledger calls that changed the ledger so far
    isRunning,        \* TradingBot.isRunning
    tradingLoop,      \* TradingBot.tradingLoop: TRUE while the interval timer is set
    startPc,          \* where TradingBot.start() stands
    paperTrading,     \* config.paperTrading, fixed for a run
    iters,            \* the invocations of tradingIteration: position and locals of each
    aiCallsLastHour,  \* RiskManager.aiCallsLastHour
    lastAICallReset,  \* RiskManager.lastAICallReset, in clock ticks
    btcMomentum1h,    \* RiskManager.btcMomentum1h, in ten-thousandths
    now,              \* Date.now(), in clock ticks
    candidate,        \* the market data of the entry candidate under evaluation
    lastFilter,       \* the last evaluation of the candidate and what it returned
    positionSizer,    \* the fields of DynamicPositionSizer
    lastRisk,         \* the last calculateRiskPerTrade call and what it returned
    momentumInput,    \* the arguments and configuration of detectMomentumFailure
    momentumResult,   \* what detectMomentumFailure returned for them
    lastStats,        \* what the last getPerformanceStats call returned
    krakenCalls,      \* the withRetry invocations of one KrakenClient: position and locals
    timeSinceLastCall,\* Date.now() - KrakenClient.lastCallTime, in time units, capped
    isDegraded,       \* KrakenClient.isDegraded
    lastGap,          \* time between the last two request attempts, in time units
    callsMade,        \* number of withRetry invocations so far
    responseCache,    \* OpenAIDecisionMaker.responseCache : key -> CacheEntry | NoEntry
    aiNow,            \* Date.now() as the decision maker reads it, in cache time units
    aiPending,        \* the decideEntry invocations awaiting the completion call
    lastServed        \* what the last decideEntry invocation to return returned

ledgerVars == <<positions, closedPositions, disk, lastCall, opCount>>

loopVars == <<isRunning, tradingLoop, startPc, paperTrading, iters>>

sizerVars == <<positionSizer, lastRisk>>

detectorVars == <<momentumInput, momentumResult>>

statsVars == <<lastStats>>

krakenVars == <<krakenCalls, timeSinceLastCall, isDegraded, lastGap, callsMade>>

cacheVars == <<responseCache, aiNow, aiPending, lastServed>>

riskVars == <<aiCallsLastHour, lastAICallReset, btcMomentum1h, now, candidate, lastFilter>>

vars == <<positions, closedPositions, disk, lastCall, opCount,
          isRunning, tradingLoop, startPc, paperTrading, iters,
          aiCallsLastHour, lastAICallReset, btcMomentum1h, now, candidate, lastFilter,
          positionSizer, lastRisk, momentumInput, momentumResult, lastStats,
          krakenCalls, timeSinceLastCall, isDegraded, lastGap, callsMade,
          responseCache, aiNow, aiPending, lastServed>>

----------------------------------------------------------------------------
(* Input domains and bounds *)

Pairs == {"BTC/USD", "ETH/USD"}

Prices == {4, 8, 12}

EntryPrices == {8}

LevelPrices == {8, 12}

ExitPrices == {4, 12}

Volumes == {1, 2}

LevelVolumes == {1}

Levels == {1, 2}

ExitReasons == {"Stop Loss", "Profit Target"}

DefaultErosionCap == 8

PyramidL1TriggerPct == 45

PyramidL2TriggerPct == 80

MaxOps == 3

----------------------------------------------------------------------------
(* Values *)

NoPosition == [status |-> "none"]

NoCall == [op |-> "none", pair |-> "", level |-> 0, result |-> FALSE]

ZeroPct == [num |-> 0, den |-> 1]

Thousandths(n) == [num |-> n, den |-> 1000]

FracGeq(a, b) == a.num * b.den >= b.num * a.den

FracLess(a, b) == a.num * b.den < b.num * a.den

RECURSIVE SumVolume(_)
SumVolume(levels) ==
    IF levels = <<>> THEN 0
    ELSE Head(levels).volume + SumVolume(Tail(levels))

RECURSIVE SumLevelProfit(_, _)
SumLevelProfit(levels, currentPrice) ==
    IF levels = <<>> THEN 0
    ELSE (currentPrice - Head(levels).entryPrice) * Head(levels).volume
         + SumLevelProfit(Tail(levels), currentPrice)

RECURSIVE SumLevelCost(_)
SumLevelCost(levels) ==
    IF levels = <<>> THEN 0
    ELSE Head(levels).entryPrice * Head(levels).volume + SumLevelCost(Tail(levels))

HasLevel(position, level) ==
    \E i \in DOMAIN position.pyramidLevels : position.pyramidLevels[i].level = level

----------------------------------------------------------------------------
(* PositionTracker.addPosition *)

NewPosition(pair, entryPrice, volume, stopLoss, profitTarget, erosionCap) ==
    [ pair                   |-> pair,
      entryPrice             |-> entryPrice,
      volume                 |-> volume,
      stopLoss               |-> stopLoss,
      profitTarget           |-> profitTarget,
      pyramidLevels          |-> <<>>,
      totalVolume            |-> volume,
      pyramidLevelsActivated |-> 0,
      currentProfit          |-> 0,
      profitPct              |-> ZeroPct,
      peakProfit             |-> 0,
      erosionCap             |-> erosionCap,
      erosionUsed            |-> 0,
      status                 |-> "open",
      exitPrice              |-> 0,
      exitReason             |-> "" ]

AddPositionOverwrites(ps, pair, entryPrice, volume, stopLoss, profitTarget, erosionCap) ==
    [ps EXCEPT ![pair] =
        NewPosition(pair, entryPrice, volume, stopLoss, profitTarget, erosionCap)]

AddPositionTo(ps, pair, entryPrice, volume, stopLoss, profitTarget, erosionCap) ==
    IF ps[pair] # NoPosition
    THEN ps
    ELSE [ps EXCEPT ![pair] =
            NewPosition(pair, entryPrice, volume, stopLoss, profitTarget, erosionCap)]

----------------------------------------------------------------------------
(* PositionTracker.updatePosition *)

ProfitOverInitialLegOnly(position, currentPrice) ==
    (currentPrice - position.entryPrice) * position.volume

TotalProfitAt(position, currentPrice) ==
    (currentPrice - position.entryPrice) * position.volume
    + SumLevelProfit(position.pyramidLevels, currentPrice)

TotalCost(position) ==
    position.entryPrice * position.volume + SumLevelCost(position.pyramidLevels)

PeakFollowsCurrent(position, currentPrice) ==
    LET totalProfit == TotalProfitAt(position, currentPrice)
        totalCost   == TotalCost(position)
    IN  [position EXCEPT
            !.currentProfit = totalProfit,
            !.profitPct     = IF totalCost > 0
                              THEN [num |-> totalProfit * 100, den |-> totalCost]
                              ELSE ZeroPct,
            !.peakProfit    = totalProfit,
            !.erosionUsed   = 0]

ErosionKeptOnNewPeak(position, currentPrice) ==
    LET totalProfit == TotalProfitAt(position, currentPrice)
        totalCost   == TotalCost(position)
    IN  [position EXCEPT
            !.currentProfit = totalProfit,
            !.profitPct     = IF totalCost > 0
                              THEN [num |-> totalProfit * 100, den |-> totalCost]
                              ELSE ZeroPct,
            !.peakProfit    = IF totalProfit > position.peakProfit
                              THEN totalProfit ELSE position.peakProfit,
            !.erosionUsed   = IF totalProfit > position.peakProfit
                              THEN position.erosionUsed
                              ELSE position.peakProfit - totalProfit]

UpdatedPosition(position, currentPrice) ==
    LET totalProfit == TotalProfitAt(position, currentPrice)
        totalCost   == TotalCost(position)
    IN  [position EXCEPT
            !.currentProfit = totalProfit,
            !.profitPct     = IF totalCost > 0
                              THEN [num |-> totalProfit * 100, den |-> totalCost]
                              ELSE ZeroPct,
            !.peakProfit    = IF totalProfit > position.peakProfit
                              THEN totalProfit ELSE position.peakProfit,
            !.erosionUsed   = IF totalProfit > position.peakProfit
                              THEN 0
                              ELSE position.peakProfit - totalProfit]

UpdatePositionIn(ps, pair, currentPrice) ==
    IF ps[pair] = NoPosition
    THEN ps
    ELSE [ps EXCEPT ![pair] = UpdatedPosition(ps[pair], currentPrice)]

----------------------------------------------------------------------------
(* PositionTracker.addPyramidLevel *)

NewPyramidLevel(level, entryPrice, volume, aiConfidence) ==
    [ level            |-> level,
      entryPrice       |-> entryPrice,
      volume           |-> volume,
      triggerProfitPct |-> IF level = 1 THEN 45 ELSE 80,
      aiConfidence     |-> aiConfidence,
      status           |-> "active" ]

LevelRejectedOnlyAtCap(position, level) ==
    position.pyramidLevelsActivated >= 2

LevelRejected(position, level) ==
    \/ position.pyramidLevelsActivated >= 2
    \/ HasLevel(position, level)

LevelPushedVolumeStale(position, level, entryPrice, volume, aiConfidence) ==
    [position EXCEPT
        !.pyramidLevels = Append(@, NewPyramidLevel(level, entryPrice, volume, aiConfidence)),
        !.pyramidLevelsActivated = @ + 1]

LevelPushedCountStale(position, level, entryPrice, volume, aiConfidence) ==
    [position EXCEPT
        !.pyramidLevels = Append(@, NewPyramidLevel(level, entryPrice, volume, aiConfidence)),
        !.totalVolume = @ + volume]

WithPyramidLevel(position, level, entryPrice, volume, aiConfidence) ==
    [position EXCEPT
        !.pyramidLevels = Append(@, NewPyramidLevel(level, entryPrice, volume, aiConfidence)),
        !.totalVolume = @ + volume,
        !.pyramidLevelsActivated = @ + 1]

AddPyramidLevelReturns(ps, pair, level) ==
    /\ ps[pair] # NoPosition
    /\ ~LevelRejected(ps[pair], level)

AddPyramidLevelIn(ps, pair, level, entryPrice, volume, aiConfidence) ==
    IF AddPyramidLevelReturns(ps, pair, level)
    THEN [ps EXCEPT ![pair] = WithPyramidLevel(ps[pair], level, entryPrice, volume, aiConfidence)]
    ELSE ps

----------------------------------------------------------------------------
(* The check and isReady queries *)

CheckErosionCap(ps, pair) ==
    /\ ps[pair] # NoPosition
    /\ ps[pair].pyramidLevelsActivated # 0
    /\ ps[pair].erosionUsed > ps[pair].erosionCap

CheckStopLoss(ps, pair, currentPrice) ==
    /\ ps[pair] # NoPosition
    /\ currentPrice <= ps[pair].stopLoss

CheckProfitTarget(ps, pair, currentPrice) ==
    /\ ps[pair] # NoPosition
    /\ currentPrice >= ps[pair].profitTarget

IsReadyForL1(ps, pair, currentProfit, l1TriggerPct) ==
    /\ ps[pair] # NoPosition
    /\ ~(ps[pair].pyramidLevelsActivated >= 1)
    /\ FracGeq(currentProfit, l1TriggerPct)

IsReadyForL2(ps, pair, currentProfit, l2TriggerPct) ==
    /\ ps[pair] # NoPosition
    /\ ~(ps[pair].pyramidLevelsActivated < 1)
    /\ ~(ps[pair].pyramidLevelsActivated >= 2)
    /\ FracGeq(currentProfit, l2TriggerPct)

----------------------------------------------------------------------------
(* PositionTracker.closePosition *)

ClosedWithoutReason(position, exitPrice, exitReason) ==
    [position EXCEPT
        !.exitPrice     = exitPrice,
        !.status        = "closed",
        !.profitPct     = [num |-> (exitPrice - position.entryPrice) * 100,
                           den |-> position.entryPrice],
        !.currentProfit = position.volume * (exitPrice - position.entryPrice)]

ClosedSnapshot(position, exitPrice, exitReason) ==
    [position EXCEPT
        !.exitPrice     = exitPrice,
        !.exitReason    = exitReason,
        !.status        = "closed",
        !.profitPct     = [num |-> (exitPrice - position.entryPrice) * 100,
                           den |-> position.entryPrice],
        !.currentProfit = position.volume * (exitPrice - position.entryPrice)]

HistoryUnshift(history, position, exitPrice, exitReason) ==
    <<ClosedSnapshot(position, exitPrice, exitReason)>> \o history

HistoryPush(history, position, exitPrice, exitReason) ==
    Append(history, ClosedSnapshot(position, exitPrice, exitReason))

ClosedAfterClose(ps, history, pair, exitPrice, exitReason) ==
    IF ps[pair] = NoPosition
    THEN history
    ELSE HistoryPush(history, ps[pair], exitPrice, exitReason)

\* the position stays in the open map
PositionKeptOpen(ps, pair) == ps

OpenAfterClose(ps, pair) ==
    [ps EXCEPT ![pair] = NoPosition]

----------------------------------------------------------------------------
(* PositionTracker.clearAll *)

OpenAfterClearAll(ps) ==
    [p \in DOMAIN ps |-> NoPosition]

HistoryDropped(history) ==
    <<>>

ClosedAfterClearAll(history) ==
    history

----------------------------------------------------------------------------
(* The ledger driven directly through its public methods *)

Call(op, pair, level, result) ==
    [op |-> op, pair |-> pair, level |-> level, result |-> result]

----------------------------------------------------------------------------
(* PositionTracker.savePositions and loadPositions *)

\* JSON.stringify writes a number that is not finite as null
JsonNumber(fraction) ==
    IF fraction.den = 0 THEN [num |-> 0, den |-> 0, null |-> TRUE] ELSE fraction

JsonPosition(position) == [position EXCEPT !.profitPct = JsonNumber(@)]

\* the "closed" array JSON.stringify writes to positions.json
SavedPositions(history) == [n \in 1..Len(history) |-> JsonPosition(history[n])]

\* savePositions: writeFileSync replaces the file, or throws and is caught
FileAfterSave(file, history, writeOk) ==
    IF writeOk THEN SavedPositions(history) ELSE file

RECURSIVE Reversed(_)
Reversed(seq) ==
    IF seq = <<>> THEN <<>> ELSE Reversed(Tail(seq)) \o <<Head(seq)>>

LoadedNewestFirst(file) == Reversed(file)

\* loadPositions: data.closed || [] of the parsed file, [] when there is none
LoadedPositions(file) == file

LedgerInit ==
    /\ positions = [p \in Pairs |-> NoPosition]
    /\ closedPositions = <<>>
    /\ disk = <<>>
    /\ lastCall = NoCall
    /\ opCount = 0

BotNotStarted ==
    /\ isRunning = FALSE
    /\ tradingLoop = FALSE
    /\ startPc = "notStarted"
    /\ paperTrading = TRUE
    /\ iters = <<>>

\* new RiskManager(config), no candidate evaluated
NoCandidate == [pair |-> ""]

NoFilter == [op |-> "none"]

RiskManagerInit ==
    /\ aiCallsLastHour = 0
    /\ lastAICallReset = 0
    /\ btcMomentum1h = 0
    /\ now = 0

NoCandidateYet ==
    /\ candidate = NoCandidate
    /\ lastFilter = NoFilter

\* a JavaScript number: a fraction num / den in lowest terms with den > 0, or
\* NaN, or an infinity of sign num
RECURSIVE GCD(_, _)
GCD(a, b) == IF b = 0 THEN a ELSE GCD(b, a % b)

Abs(n) == IF n < 0 THEN -n ELSE n

Num(n, d) ==
    LET g == GCD(Abs(n), Abs(d))
        s == IF d < 0 THEN -1 ELSE 1
    IN  [kind |-> "num", num |-> (s * n) \div g, den |-> (s * d) \div g]

NaN == [kind |-> "nan", num |-> 0, den |-> 1]

Inf(sign) == [kind |-> "inf", num |-> sign, den |-> 1]

Sign(x) == IF x.num > 0 THEN 1 ELSE IF x.num < 0 THEN -1 ELSE 0

\* new DynamicPositionSizer(config.accountBalance || 1000) with the default
\* configuration, balances in whole currency units
NewSizer ==
    [ accountBalance |-> 1000, totalTrades |-> 0, totalWins |-> 0, totalLosses |-> 0,
      avgWinPct |-> Num(25, 1000), avgLossPct |-> Num(15, 1000) ]

NoRisk == [aiConfidence |-> -1, risk |-> NaN]

SizerInit ==
    /\ positionSizer = NewSizer
    /\ lastRisk = NoRisk

NoMomentumInput == [enabled |-> FALSE]

NoMomentumResult == [shouldExit |-> FALSE, signalCount |-> -1]

NoStats == [totalTrades |-> -1]

\* ---------------------------------------------------------------------
\* KrakenClient and OpenAIDecisionMaker after construction
\* (KrakenClient.ts:20-34, part_005:10-30)

REQUEST_DELAY_MS == 100

MAX_RETRIES == 2

\* one time unit of the Kraken client's clock, in milliseconds: half the
\* request delay
TimeUnitMs == REQUEST_DELAY_MS \div 2

Callers == {"a", "b"}

NoGap == 0 - 1

IdleCall == [pc |-> "idle", attempt |-> 0, timer |-> 0, outcome |-> "none", backoffs |-> <<>>]

\* lastCallTime = 0 and Date.now() is far beyond REQUEST_DELAY_MS
KrakenClientInit ==
    /\ krakenCalls = [c \in Callers |-> IdleCall]
    /\ timeSinceLastCall = REQUEST_DELAY_MS \div TimeUnitMs
    /\ isDegraded = FALSE
    /\ lastGap = NoGap
    /\ callsMade = 0

CachePrices == {10020, 10080, 10120}

CacheRsi == {52}

\* indicators.volumeRatio in tenths
CacheVolumeRatio == {12}

\* getCacheKey: pair, price rounded down to the hundred, RSI bucket of 5,
\* volume-ratio bucket of 0.5
GetCacheKey(pair, price, rsi, volumeRatio) ==
    <<pair, (price \div 100) * 100, rsi \div 5, volumeRatio \div 5>>

CacheKeys ==
    {GetCacheKey("BTC/USD", price, rsi, volumeRatio) :
        price \in CachePrices, rsi \in CacheRsi, volumeRatio \in CacheVolumeRatio}

NoEntry == [timestamp |-> -1]

NoServed == [source |-> "none"]

DecisionMakerInit ==
    /\ responseCache = [k \in CacheKeys |-> NoEntry]
    /\ aiNow = 0
    /\ aiPending = {}
    /\ lastServed = NoServed

ClientsNotUsed == KrakenClientInit /\ DecisionMakerInit

\* nothing asked of the detector or of the statistics yet
NothingAsked ==
    /\ momentumInput = NoMomentumInput
    /\ momentumResult = NoMomentumResult
    /\ lastStats = NoStats
    /\ ClientsNotUsed

Counted(changed) ==
    /\ changed => opCount < MaxOps
    /\ opCount' = IF changed THEN opCount + 1 ELSE opCount

addPosition(pair, entryPrice, volume, stopLoss, profitTarget, erosionCap) ==
    /\ positions' = AddPositionTo(positions, pair, entryPrice, volume,
                                  stopLoss, profitTarget, erosionCap)
    /\ Counted(positions' # positions)
    /\ lastCall' = Call("addPosition", pair, 0, FALSE)
    /\ UNCHANGED <<closedPositions, disk>>
    /\ UNCHANGED loopVars
    /\ UNCHANGED <<riskVars, sizerVars, detectorVars, statsVars, krakenVars, cacheVars>>

updatePosition(pair, currentPrice) ==
    /\ positions' = UpdatePositionIn(positions, pair, currentPrice)
    /\ Counted(positions[pair] # NoPosition)
    /\ lastCall' = Call("updatePosition", pair, 0, positions[pair] # NoPosition)
    /\ UNCHANGED <<closedPositions, disk>>
    /\ UNCHANGED loopVars
    /\ UNCHANGED <<riskVars, sizerVars, detectorVars, statsVars, krakenVars, cacheVars>>

addPyramidLevel(pair, level, entryPrice, volume, aiConfidence) ==
    /\ positions' = AddPyramidLevelIn(positions, pair, level, entryPrice, volume, aiConfidence)
    /\ Counted(positions' # positions)
    /\ lastCall' = Call("addPyramidLevel", pair, level,
                        AddPyramidLevelReturns(positions, pair, level))
    /\ UNCHANGED <<closedPositions, disk>>
    /\ UNCHANGED loopVars
    /\ UNCHANGED <<riskVars, sizerVars, detectorVars, statsVars, krakenVars, cacheVars>>

closePosition(pair, exitPrice, exitReason, writeOk) ==
    /\ closedPositions' = ClosedAfterClose(positions, closedPositions, pair, exitPrice, exitReason)
    /\ positions' = OpenAfterClose(positions, pair)
    /\ disk' = IF positions[pair] # NoPosition
               THEN FileAfterSave(disk, closedPositions', writeOk) ELSE disk
    /\ positions[pair] = NoPosition => writeOk
    /\ Counted(positions[pair] # NoPosition)
    /\ lastCall' = Call("closePosition", pair, 0, positions[pair] # NoPosition)
    /\ UNCHANGED loopVars
    /\ UNCHANGED <<riskVars, sizerVars, detectorVars, statsVars, krakenVars, cacheVars>>

checkErosionCap(pair) ==
    /\ lastCall' = Call("checkErosionCap", pair, 0, CheckErosionCap(positions, pair))
    /\ UNCHANGED <<positions, closedPositions, disk, opCount>>
    /\ UNCHANGED loopVars
    /\ UNCHANGED <<riskVars, sizerVars, detectorVars, statsVars, krakenVars, cacheVars>>

checkStopLoss(pair, currentPrice) ==
    /\ lastCall' = Call("checkStopLoss", pair, 0, CheckStopLoss(positions, pair, currentPrice))
    /\ UNCHANGED <<positions, closedPositions, disk, opCount>>
    /\ UNCHANGED loopVars
    /\ UNCHANGED <<riskVars, sizerVars, detectorVars, statsVars, krakenVars, cacheVars>>

checkProfitTarget(pair, currentPrice) ==
    /\ lastCall' = Call("checkProfitTarget", pair, 0, CheckProfitTarget(positions, pair, currentPrice))
    /\ UNCHANGED <<positions, closedPositions, disk, opCount>>
    /\ UNCHANGED loopVars
    /\ UNCHANGED <<riskVars, sizerVars, detectorVars, statsVars, krakenVars, cacheVars>>

isReadyForL1(pair, currentProfit, l1TriggerPct) ==
    /\ lastCall' = Call("isReadyForL1", pair, 1,
                        IsReadyForL1(positions, pair, currentProfit, l1TriggerPct))
    /\ UNCHANGED <<positions, closedPositions, disk, opCount>>
    /\ UNCHANGED loopVars
    /\ UNCHANGED <<riskVars, sizerVars, detectorVars, statsVars, krakenVars, cacheVars>>

isReadyForL2(pair, currentProfit, l2TriggerPct) ==
    /\ lastCall' = Call("isReadyForL2", pair, 2,
                        IsReadyForL2(positions, pair, currentProfit, l2TriggerPct))
    /\ UNCHANGED <<positions, closedPositions, disk, opCount>>
    /\ UNCHANGED loopVars
    /\ UNCHANGED <<riskVars, sizerVars, detectorVars, statsVars, krakenVars, cacheVars>>

clearAll ==
    /\ positions' = OpenAfterClearAll(positions)
    /\ closedPositions' = ClosedAfterClearAll(closedPositions)
    /\ Counted(positions' # positions)
    /\ lastCall' = Call("clearAll", "", 0, FALSE)
    /\ UNCHANGED disk
    /\ UNCHANGED loopVars
    /\ UNCHANGED <<riskVars, sizerVars, detectorVars, statsVars, krakenVars, cacheVars>>

Next ==
    \/ \E pair \in Pairs, entryPrice \in EntryPrices, volume \in Volumes :
          addPosition(pair, entryPrice, volume, 4, 12, DefaultErosionCap)
    \/ \E pair \in Pairs, currentPrice \in Prices :
          updatePosition(pair, currentPrice)
    \/ \E pair \in Pairs, level \in Levels, entryPrice \in LevelPrices, volume \in LevelVolumes :
          addPyramidLevel(pair, level, entryPrice, volume, 85)
    \/ \E pair \in Pairs, exitPrice \in ExitPrices, exitReason \in ExitReasons, writeOk \in BOOLEAN :
          closePosition(pair, exitPrice, exitReason, writeOk)
    \/ \E pair \in Pairs : checkErosionCap(pair)
    \/ \E pair \in Pairs : checkStopLoss(pair, 4)
    \/ \E pair \in Pairs : checkProfitTarget(pair, 12)
    \/ \E pair \in Pairs : isReadyForL1(pair, Thousandths(45), Thousandths(PyramidL1TriggerPct))
    \/ \E pair \in Pairs : isReadyForL2(pair, Thousandths(80), Thousandths(PyramidL2TriggerPct))
    \/ clearAll

Init ==
    LedgerInit /\ BotNotStarted /\ RiskManagerInit /\ NoCandidateYet /\ SizerInit /\ NothingAsked

Spec == Init /\ [][Next]_vars

----------------------------------------------------------------------------
(* The trading loop: TradingBot in src/src/index.ts.                        *)
(*                                                                          *)
(* The process is single-threaded: code runs without interruption from one  *)
(* await on network I/O to the next, so each action below is one such run.  *)
(* The awaits are fetchMarketData (Kraken), decideEntry and decidePyramidAdd*)
(* (OpenAI) and placeOrder (Kraken).  runFullRiskFilter and, in paper       *)
(* trading, TradingBot.closePosition do no I/O and run inside the action of *)
(* their caller.                                                            *)
(*                                                                          *)
(* What the market and the advisory service answer is input: the price, the *)
(* verdict of runFullRiskFilter (a function of the indicators and of        *)
(* RiskManager's call counter), the three momentum signals, the entry and   *)
(* pyramid decisions and whether an order was accepted are drawn freely.    *)

ConfigPairs == <<"BTC/USD", "ETH/USD">>

\* 10.000, 10.850, 11.900: from one to the next a position gains 8.5% or 9.7%
\* (both pyramid triggers, no exit), from the first to the last 19% (profit
\* target), and going down it loses more than the 5% stop
LoopPrices == {10000, 10850, 11900}

\* savePositions in the loop: the write goes through.  Its failure is an input
\* of the ledger specification above.
LoopWrites == {TRUE}

SizedVolumes == {100}

\* the last one is what decideEntry returns when the call or the parse fails
EntryDecisions == { [decision |-> "BUY",  confidence |-> 80],
                    [decision |-> "BUY",  confidence |-> 60],
                    [decision |-> "HOLD", confidence |-> 90],
                    [decision |-> "HOLD", confidence |-> 0] }

NoDecision == [decision |-> "", confidence |-> 0]

PyramidDecisions == { [shouldAdd |-> TRUE,  confidence |-> 95],
                      [shouldAdd |-> TRUE,  confidence |-> 80],
                      [shouldAdd |-> FALSE, confidence |-> 95] }

MaxTicks == 3

StopLossPct == 50

ProfitTargetPct == 100

PyramidAddSizePctL1 == 350

PyramidAddSizePctL2 == 500

PyramidL1ConfidenceMin == 85

PyramidL2ConfidenceMin == 90

PyramidErosionCapTrend == 8

MomentumFailureMinProfit == 20

AiMinConfidence == 70

Slots == 1..MaxTicks

\* riskFilterPass and aiDecision are the locals riskFilter.pass and aiDecision
\* of tryEntry and executeTrade
Idle ==
    [ pc |-> "idle", k |-> 0, price |-> 0, volume |-> 0, level |-> 0,
      profitFraction |-> ZeroPct, reason |-> "",
      riskFilterPass |-> FALSE, aiDecision |-> NoDecision ]

AtFetchBTC == [Idle EXCEPT !.pc = "fetchBTC"]

Finished == [Idle EXCEPT !.pc = "done"]

PairOf(it) == ConfigPairs[it.k]

\* RiskManager.calculateLevels, direction 'buy'
StopLossLevel(entryPrice) == (entryPrice * (1000 - StopLossPct)) \div 1000

ProfitTargetLevel(entryPrice) == (entryPrice * (1000 + ProfitTargetPct)) \div 1000

\* the for loop of tradingIteration, entered at the pair after it.k
NextPair(it, running) ==
    IF it.k < Len(ConfigPairs) /\ running
    THEN [Idle EXCEPT !.pc = "fetchPair", !.k = it.k + 1]
    ELSE Finished

\* position.profitPct / 100; the numerator of every stored profitPct is a
\* multiple of 100, so the division is exact
ProfitFraction(position) ==
    [num |-> position.profitPct.num \div 100, den |-> position.profitPct.den]

\* detectMomentumFailure: the gate on the position's profit, then the signals
MomentumShouldExit(position, signalsMet) ==
    /\ ~FracLess(ProfitFraction(position), Thousandths(MomentumFailureMinProfit))
    /\ signalsMet

\* RiskManager.validatePyramidAdd
ValidatePyramidAdd(aiConfidence, level, currentProfit, targetProfitPct) ==
    /\ ~(aiConfidence < (IF level = 1 THEN PyramidL1ConfidenceMin ELSE PyramidL2ConfidenceMin))
    /\ ~FracLess(currentProfit, targetProfitPct)

\* checkAndExecutePyramidAdds from its level 2 test on
FromL2Check(it, ps, running) ==
    IF IsReadyForL2(ps, PairOf(it), it.profitFraction, Thousandths(PyramidL2TriggerPct))
    THEN [it EXCEPT !.pc = "decidePyramid", !.level = 2]
    ELSE NextPair(it, running)

\* checkAndExecutePyramidAdds from its start; position is the object
\* monitorPosition holds
FromL1Check(it, ps, position, price, running) ==
    LET it1 == [it EXCEPT
                  !.price = price,
                  !.volume = position.volume,
                  !.profitFraction = ProfitFraction(position)]
    IN  IF IsReadyForL1(ps, PairOf(it), it1.profitFraction, Thousandths(PyramidL1TriggerPct))
        THEN [it1 EXCEPT !.pc = "decidePyramid", !.level = 1]
        ELSE FromL2Check(it1, ps, running)

\* tryEntry: the early return on the verdict of runFullRiskFilter
RiskFilterIgnored(pass) == FALSE

RiskFilterBlocks(pass) == ~pass

\* tryEntry: the confidence test, then the test of the decision
EntryAcceptedOnConfidence(aiDecision) ==
    ~(aiDecision.confidence < AiMinConfidence)

EntryAccepted(aiDecision) ==
    /\ ~(aiDecision.confidence < AiMinConfidence)
    /\ aiDecision.decision = "BUY"

\* the exit monitorPosition takes, "" when it takes none
ExitReasonAt(ps, pair, price, signalsMet) ==
    IF CheckStopLoss(ps, pair, price) THEN "Stop Loss"
    ELSE IF CheckErosionCap(ps, pair) THEN "Erosion Cap Exceeded"
    ELSE IF MomentumShouldExit(ps[pair], signalsMet) THEN "Momentum Failure"
    ELSE IF CheckProfitTarget(ps, pair, price) THEN "Profit Target"
    ELSE ""

BotInit ==
    /\ LedgerInit
    /\ isRunning = TRUE
    /\ tradingLoop = FALSE
    /\ startPc = "firstIteration"
    /\ paperTrading \in BOOLEAN
    /\ iters = [i \in Slots |-> IF i = 1 THEN AtFetchBTC ELSE Idle]
    /\ RiskManagerInit
    /\ NoCandidateYet
    /\ SizerInit
    /\ NothingAsked

LedgerCallsUntracked == UNCHANGED <<lastCall, opCount>> /\ UNCHANGED <<riskVars, sizerVars, detectorVars, statsVars, krakenVars, cacheVars>>

\* start(): the first iteration has returned, the interval is set
SetInterval ==
    /\ startPc = "firstIteration"
    /\ iters[1].pc = "done"
    /\ startPc' = "started"
    /\ tradingLoop' = TRUE
    /\ UNCHANGED <<positions, closedPositions, disk, isRunning, paperTrading, iters>>
    /\ LedgerCallsUntracked

\* the interval fires and calls tradingIteration, whatever earlier calls are doing
Tick(i) ==
    /\ tradingLoop
    /\ iters[i].pc = "idle"
    /\ \A j \in Slots : j < i => iters[j].pc # "idle"
    /\ iters' = [iters EXCEPT ![i] = AtFetchBTC]
    /\ UNCHANGED <<positions, closedPositions, disk, isRunning, tradingLoop, startPc, paperTrading>>
    /\ LedgerCallsUntracked

\* stop()
Stop ==
    /\ isRunning
    /\ isRunning' = FALSE
    /\ tradingLoop' = FALSE
    /\ UNCHANGED <<positions, closedPositions, disk, startPc, paperTrading, iters>>
    /\ LedgerCallsUntracked

\* tradingIteration: fetchMarketData('BTC/USD') returned
BTCDataArrives(i, ok) ==
    /\ iters[i].pc = "fetchBTC"
    /\ iters' = [iters EXCEPT ![i] = IF ok THEN NextPair(Idle, isRunning) ELSE Finished]
    /\ UNCHANGED <<positions, closedPositions, disk, isRunning, tradingLoop, startPc, paperTrading>>
    /\ LedgerCallsUntracked

\* processPair: fetchMarketData(pair) returned; monitorPosition or tryEntry up
\* to its first await
PairDataArrives(i, ok, price, filterPass, signalsMet, writeOk) ==
    LET it     == iters[i]
        pair   == PairOf(it)
        ps1    == UpdatePositionIn(positions, pair, price)
        reason == ExitReasonAt(ps1, pair, price, signalsMet)
    IN  /\ it.pc = "fetchPair"
        /\ IF ~ok
           THEN /\ iters' = [iters EXCEPT ![i] = NextPair(it, isRunning)]
                /\ UNCHANGED <<positions, closedPositions, disk>>
           ELSE IF positions[pair] = NoPosition
           THEN \* tryEntry
                /\ iters' = [iters EXCEPT ![i] =
                      IF RiskFilterBlocks(filterPass)
                      THEN NextPair(it, isRunning)
                      ELSE [it EXCEPT !.pc = "decideEntry", !.price = price,
                                      !.riskFilterPass = filterPass]]
                /\ UNCHANGED <<positions, closedPositions, disk>>
           ELSE IF reason # "" /\ paperTrading
           THEN \* monitorPosition, exit, TradingBot.closePosition without an order
                /\ closedPositions' = ClosedAfterClose(ps1, closedPositions, pair, price, reason)
                /\ positions' = OpenAfterClose(ps1, pair)
                /\ disk' = FileAfterSave(disk, closedPositions', writeOk)
                /\ iters' = [iters EXCEPT ![i] = NextPair(it, isRunning)]
           ELSE IF reason # ""
           THEN \* monitorPosition, exit, TradingBot.closePosition awaits the sell order
                /\ positions' = ps1
                /\ iters' = [iters EXCEPT ![i] =
                      [it EXCEPT !.pc = "placeSell", !.price = price, !.reason = reason]]
                /\ UNCHANGED <<closedPositions, disk>>
           ELSE \* monitorPosition, no exit: checkAndExecutePyramidAdds
                /\ positions' = ps1
                /\ iters' = [iters EXCEPT ![i] = FromL1Check(it, ps1, ps1[pair], price, isRunning)]
                /\ UNCHANGED <<closedPositions, disk>>
        /\ (~ok \/ positions[pair] # NoPosition) => filterPass
        /\ (~ok \/ positions[pair] = NoPosition) => signalsMet
        /\ ~(ok /\ positions[pair] # NoPosition /\ reason # "" /\ paperTrading) => writeOk
        /\ ~ok => price = 10000
        /\ UNCHANGED <<isRunning, tradingLoop, startPc, paperTrading>>
        /\ LedgerCallsUntracked

\* tryEntry: decideEntry returned; executeTrade up to its order
DecideEntryReturns(i, aiDecision, volume) ==
    LET it   == iters[i]
        pair == PairOf(it)
        buy  == EntryAccepted(aiDecision)
    IN  /\ it.pc = "decideEntry"
        /\ positions' =
              IF buy /\ paperTrading
              THEN AddPositionTo(positions, pair, it.price, volume,
                                 StopLossLevel(it.price), ProfitTargetLevel(it.price),
                                 PyramidErosionCapTrend)
              ELSE positions
        /\ iters' = [iters EXCEPT ![i] =
              IF buy /\ ~paperTrading
              THEN [it EXCEPT !.pc = "placeBuy", !.volume = volume,
                              !.aiDecision = aiDecision]
              ELSE NextPair(it, isRunning)]
        /\ UNCHANGED <<closedPositions, disk, isRunning, tradingLoop, startPc, paperTrading>>
        /\ LedgerCallsUntracked

\* executeTrade: placeOrder(pair, 'buy', size) returned
BuyOrderReturns(i, orderId) ==
    LET it   == iters[i]
        pair == PairOf(it)
    IN  /\ it.pc = "placeBuy"
        /\ positions' =
              IF orderId
              THEN AddPositionTo(positions, pair, it.price, it.volume,
                                 StopLossLevel(it.price), ProfitTargetLevel(it.price),
                                 PyramidErosionCapTrend)
              ELSE positions
        /\ iters' = [iters EXCEPT ![i] = NextPair(it, isRunning)]
        /\ UNCHANGED <<closedPositions, disk, isRunning, tradingLoop, startPc, paperTrading>>
        /\ LedgerCallsUntracked

\* TradingBot.closePosition: placeOrder(pair, 'sell', totalVolume) returned
\* its order id or null; the value is not looked at
SellOrderReturns(i, writeOk, orderId) ==
    LET it   == iters[i]
        pair == PairOf(it)
    IN  /\ it.pc = "placeSell"
        /\ closedPositions' = ClosedAfterClose(positions, closedPositions, pair, it.price, it.reason)
        /\ positions' = OpenAfterClose(positions, pair)
        /\ disk' = IF positions[pair] # NoPosition
               THEN FileAfterSave(disk, closedPositions', writeOk) ELSE disk
        /\ positions[pair] = NoPosition => writeOk
        /\ iters' = [iters EXCEPT ![i] = NextPair(it, isRunning)]
        /\ UNCHANGED <<isRunning, tradingLoop, startPc, paperTrading>>
        /\ LedgerCallsUntracked

\* checkAndExecutePyramidAdds: decidePyramidAdd returned for level it.level
PyramidDecisionReturns(i, pyramidDecision) ==
    LET it        == iters[i]
        pair      == PairOf(it)
        trigger   == IF it.level = 1 THEN PyramidL1TriggerPct ELSE PyramidL2TriggerPct
        sizePct   == IF it.level = 1 THEN PyramidAddSizePctL1 ELSE PyramidAddSizePctL2
        addVolume == (it.volume * sizePct) \div 1000
        adding    == /\ ValidatePyramidAdd(pyramidDecision.confidence, it.level,
                                           it.profitFraction, Thousandths(trigger))
                     /\ pyramidDecision.shouldAdd
        added     == adding /\ AddPyramidLevelReturns(positions, pair, it.level)
    IN  /\ it.pc = "decidePyramid"
        /\ positions' =
              IF adding
              THEN AddPyramidLevelIn(positions, pair, it.level, it.price, addVolume,
                                     pyramidDecision.confidence)
              ELSE positions
        /\ iters' = [iters EXCEPT ![i] =
              IF added /\ ~paperTrading THEN [it EXCEPT !.pc = "placePyramid"]
              ELSE IF it.level = 1 THEN FromL2Check(it, positions', isRunning)
              ELSE NextPair(it, isRunning)]
        /\ UNCHANGED <<closedPositions, disk, isRunning, tradingLoop, startPc, paperTrading>>
        /\ LedgerCallsUntracked

\* checkAndExecutePyramidAdds: placeOrder(pair, 'buy', addVolume) returned
\* its order id or null; the level is in the ledger already
PyramidOrderReturns(i, orderId) ==
    LET it == iters[i]
    IN  /\ it.pc = "placePyramid"
        /\ iters' = [iters EXCEPT ![i] =
              IF it.level = 1 THEN FromL2Check(it, positions, isRunning)
              ELSE NextPair(it, isRunning)]
        /\ UNCHANGED <<positions, closedPositions, disk, isRunning, tradingLoop, startPc, paperTrading>>
        /\ LedgerCallsUntracked

LoopNext ==
    \/ SetInterval
    \/ \E i \in Slots : Tick(i)
    \/ Stop
    \/ \E i \in Slots, ok \in BOOLEAN : BTCDataArrives(i, ok)
    \/ \E i \in Slots, ok \in BOOLEAN, price \in LoopPrices,
          filterPass \in BOOLEAN, signalsMet \in BOOLEAN, writeOk \in LoopWrites :
          PairDataArrives(i, ok, price, filterPass, signalsMet, writeOk)
    \/ \E i \in Slots, aiDecision \in EntryDecisions, volume \in SizedVolumes :
          DecideEntryReturns(i, aiDecision, volume)
    \/ \E i \in Slots, orderId \in BOOLEAN : BuyOrderReturns(i, orderId)
    \/ \E i \in Slots, writeOk \in LoopWrites, orderId \in BOOLEAN :
          SellOrderReturns(i, writeOk, orderId)
    \/ \E i \in Slots, pyramidDecision \in PyramidDecisions :
          PyramidDecisionReturns(i, pyramidDecision)
    \/ \E i \in Slots, orderId \in BOOLEAN : PyramidOrderReturns(i, orderId)

SpecLoop == BotInit /\ [][LoopNext]_vars

----------------------------------------------------------------------------
(* Properties of the ledger *)

IsOpen(pair) == positions[pair] # NoPosition

OpenPairs == {p \in Pairs : IsOpen(p)}

VolumeAddsUp(position) ==
    position.totalVolume = position.volume + SumVolume(position.pyramidLevels)

\* C1: every open position and every entry of closed history has
\* totalVolume = initial volume + the sum of the volumes of its pyramid levels.
C1_TotalVolumeIsSum ==
    /\ \A p \in OpenPairs : VolumeAddsUp(positions[p])
    /\ \A i \in DOMAIN closedPositions : VolumeAddsUp(closedPositions[i])

C1_Witness ==
    /\ \E i \in DOMAIN closedPositions :
          /\ Len(closedPositions[i].pyramidLevels) >= 1
          /\ closedPositions[i].totalVolume > closedPositions[i].volume
    /\ lastCall.op = "closePosition"

\* C2: addPyramidLevel(pair, 2, ...) on an open position without level 1
\* returns false and leaves the ledger as it was.
C2_Level2NeedsLevel1 ==
    [][ \A p \in Pairs :
          ( /\ lastCall'.op = "addPyramidLevel"
            /\ lastCall'.pair = p
            /\ lastCall'.level = 2
            /\ IsOpen(p)
            /\ ~HasLevel(positions[p], 1) )
          => ( /\ lastCall'.result = FALSE
               /\ positions' = positions
               /\ closedPositions' = closedPositions ) ]_vars

\* C3: checkErosionCap(pair) on an open position returns true exactly when
\* its erosionUsed exceeds its erosionCap, whatever its number of pyramid levels.
C3_ErosionCapAllPositions ==
    ( lastCall.op = "checkErosionCap" /\ lastCall.pair \in OpenPairs )
    => ( lastCall.result
           = (positions[lastCall.pair].erosionUsed > positions[lastCall.pair].erosionCap) )

\* C5: peakProfit of an open position never decreases from one ledger call to
\* the next, and it is 0 when the position is created.
C5_PeakProfitMonotone ==
    [][ \A p \in Pairs :
          /\ (IsOpen(p) /\ positions'[p] # NoPosition)
               => positions'[p].peakProfit >= positions[p].peakProfit
          /\ (~IsOpen(p) /\ positions'[p] # NoPosition)
               => positions'[p].peakProfit = 0 ]_vars

C5_Witness ==
    \E p \in OpenPairs :
        /\ positions[p].peakProfit > 0
        /\ positions[p].currentProfit < positions[p].peakProfit
        /\ lastCall.op = "updatePosition"
        /\ lastCall.pair = p

ErosionRelation(position) ==
    /\ position.erosionUsed >= 0
    /\ position.erosionUsed = position.peakProfit - position.currentProfit

\* C6: an updatePosition on an open position leaves erosionUsed >= 0, equal to 0
\* if the update reached a new peak and to peakProfit - currentProfit otherwise;
\* the relation erosionUsed = peakProfit - currentProfit >= 0 then holds of every
\* open position, also after addPyramidLevel.
C6_ErosionFollowsPeak ==
    /\ [](\A p \in OpenPairs : ErosionRelation(positions[p]))
    /\ [][ \A p \in Pairs :
             ( lastCall'.op = "updatePosition" /\ lastCall'.pair = p /\ IsOpen(p) )
             => /\ positions'[p].erosionUsed >= 0
                /\ positions'[p].currentProfit > positions[p].peakProfit
                     => positions'[p].erosionUsed = 0
                /\ ~(positions'[p].currentProfit > positions[p].peakProfit)
                     => positions'[p].erosionUsed
                          = positions'[p].peakProfit - positions'[p].currentProfit ]_vars

C6_Witness ==
    \E p \in OpenPairs :
        /\ positions[p].erosionUsed > 0
        /\ positions[p].pyramidLevelsActivated >= 1
        /\ lastCall = Call("addPyramidLevel", p, lastCall.level, TRUE)

SamePosition(a, b) ==
    /\ a.pair = b.pair
    /\ a.entryPrice = b.entryPrice
    /\ a.volume = b.volume
    /\ a.stopLoss = b.stopLoss
    /\ a.profitTarget = b.profitTarget
    /\ a.erosionCap = b.erosionCap

\* C7: each instrument has at most one open position, and the open position of
\* an instrument is never replaced by another one: a new one appears only when
\* the instrument has none.
C7_OneOpenPerInstrument ==
    /\ [](\A q \in Pairs :
            Cardinality({p \in OpenPairs : positions[p].pair = q
                                           /\ positions[p].status = "open"}) <= 1)
    /\ [](\A p \in OpenPairs : positions[p].pair = p /\ positions[p].status = "open")
    /\ [][ \A p \in Pairs :
             (IsOpen(p) /\ positions'[p] # NoPosition)
             => SamePosition(positions[p], positions'[p]) ]_vars

C7_Witness ==
    \E p \in OpenPairs :
        /\ \E i \in DOMAIN closedPositions : closedPositions[i].pair = p
        /\ lastCall.op = "addPosition"
        /\ lastCall.pair = p

\* C8: addPosition for an instrument that has an open position, and
\* addPyramidLevel with a level that exists or with 2 levels active, change
\* neither the open positions nor closed history; addPyramidLevel returns false.
C8_InvalidTransitionNoOp ==
    [][ \A p \in Pairs :
          /\ ( lastCall'.op = "addPosition" /\ lastCall'.pair = p /\ IsOpen(p) )
               => ( positions' = positions /\ closedPositions' = closedPositions )
          /\ ( /\ lastCall'.op = "addPyramidLevel"
               /\ lastCall'.pair = p
               /\ IsOpen(p)
               /\ \/ HasLevel(positions[p], lastCall'.level)
                  \/ positions[p].pyramidLevelsActivated >= 2 )
               => ( /\ positions' = positions
                    /\ closedPositions' = closedPositions
                    /\ lastCall'.result = FALSE ) ]_vars

C8_Witness ==
    /\ lastCall.op = "addPyramidLevel"
    /\ lastCall.result = FALSE
    /\ lastCall.pair \in OpenPairs
    /\ HasLevel(positions[lastCall.pair], lastCall.level)
    /\ positions[lastCall.pair].pyramidLevelsActivated = 1

\* C9: the pyramid levels of an open position have pairwise distinct level
\* numbers, pyramidLevelsActivated is their number, and there are at most 2.
C9_LevelsDistinctAndCounted ==
    \A p \in OpenPairs :
        LET levels == positions[p].pyramidLevels
        IN  /\ \A i, j \in DOMAIN levels : i # j => levels[i].level # levels[j].level
            /\ positions[p].pyramidLevelsActivated = Len(levels)
            /\ Len(levels) <= 2

C9_Witness ==
    /\ lastCall.op = "addPyramidLevel"
    /\ lastCall.result = FALSE
    /\ lastCall.pair \in OpenPairs
    /\ positions[lastCall.pair].pyramidLevelsActivated = 2

\* C10: an entry of closed history is never changed or removed by a later
\* ledger call.
C10_ClosedIsFinal ==
    [][ \A i \in DOMAIN closedPositions :
          /\ i \in DOMAIN closedPositions'
          /\ closedPositions'[i] = closedPositions[i] ]_vars

C10_Witness ==
    /\ Len(closedPositions) >= 1
    /\ lastCall.op \in {"updatePosition", "addPyramidLevel", "clearAll"}
    /\ lastCall.pair \in {closedPositions[1].pair, ""}

----------------------------------------------------------------------------
(* Properties of the trading loop *)

\* iteration i is suspended at an await inside tryEntry or monitorPosition
\* of its pair
InsidePair(i) ==
    iters[i].pc \in {"decideEntry", "placeBuy", "placeSell", "decidePyramid", "placePyramid"}

\* C4: no two iterations of the trading loop process the same instrument at
\* the same time: while one iteration is suspended at an await inside
\* tryEntry or monitorPosition of a pair, no other iteration is inside
\* tryEntry or monitorPosition of that pair.
C4_OneIterationPerInstrument ==
    \A i, j \in Slots :
        (i # j /\ InsidePair(i) /\ InsidePair(j)) => iters[i].k # iters[j].k

----------------------------------------------------------------------------
(* Properties of closing *)

\* C11: closePosition on an instrument with an open position removes it from
\* the open positions and appends exactly one entry to closed history, with
\* status 'closed' and the supplied exit price and exit reason; on an
\* instrument without an open position it changes nothing; no ledger call
\* shortens closed history or reorders its entries.
C11_CloseMovesToHistory ==
    [][ /\ \A p \in Pairs, exitPrice \in ExitPrices, exitReason \in ExitReasons,
             writeOk \in BOOLEAN :
             closePosition(p, exitPrice, exitReason, writeOk) =>
                IF IsOpen(p)
                THEN /\ positions' = [positions EXCEPT ![p] = NoPosition]
                     /\ Len(closedPositions') = Len(closedPositions) + 1
                     /\ LET closed == closedPositions'[Len(closedPositions')]
                        IN  /\ closed.pair = p
                            /\ closed.status = "closed"
                            /\ closed.exitPrice = exitPrice
                            /\ closed.exitReason = exitReason
                ELSE /\ positions' = positions
                     /\ closedPositions' = closedPositions
                     /\ disk' = disk
        /\ Len(closedPositions') >= Len(closedPositions)
        /\ \A i \in DOMAIN closedPositions : closedPositions'[i] = closedPositions[i]
      ]_vars

C11_Witness ==
    /\ lastCall.op = "closePosition"
    /\ lastCall.result = TRUE
    /\ positions[lastCall.pair] = NoPosition
    /\ Len(closedPositions) = 1
    /\ closedPositions[1].pair = lastCall.pair
    /\ closedPositions[1].exitReason = "Stop Loss"
    /\ closedPositions[1].exitPrice = 4

\* C12: the profit recorded in a closed position is the profit updatePosition
\* computes at the exit price: the sum over the initial leg and every pyramid
\* level of (exitPrice - leg entry price) * leg volume.
C12_CloseProfitOverAllLegs ==
    \A i \in DOMAIN closedPositions :
        closedPositions[i].currentProfit
            = TotalProfitAt(closedPositions[i], closedPositions[i].exitPrice)

----------------------------------------------------------------------------
(* Properties of the erosion cap *)

\* erosionUsed / peakProfit > erosionCap, the cap being a count of thousandths
GivebackExceedsCap(position) ==
    /\ position.peakProfit > 0
    /\ position.erosionUsed * 1000 > position.erosionCap * position.peakProfit

\* C13: checkErosionCap(pair) on an open position with pyramid levels returns
\* true exactly when peakProfit is positive and erosionUsed / peakProfit
\* exceeds the fraction erosionCap.
C13_ErosionCapIsFractionOfPeak ==
    ( /\ lastCall.op = "checkErosionCap"
      /\ lastCall.pair \in OpenPairs
      /\ positions[lastCall.pair].pyramidLevelsActivated > 0 )
    => ( lastCall.result = GivebackExceedsCap(positions[lastCall.pair]) )

----------------------------------------------------------------------------
(* Properties of entry *)

\* the gates of tryEntry hold for the verdict and the decision given
GatesPassed(riskFilterPass, aiDecision) ==
    /\ riskFilterPass
    /\ aiDecision.confidence >= AiMinConfidence
    /\ aiDecision.decision = "BUY"

\* C14: the trading loop opens a position for a pair only in a step of an
\* iteration that is inside tryEntry of that pair, for which runFullRiskFilter
\* returned pass, and whose validation decision is BUY with confidence of at
\* least aiMinConfidence; a decision HOLD with confidence 0 opens nothing.
C14_EntryOnlyAfterAllGates ==
    [][ \A p \in Pairs :
          (~IsOpen(p) /\ positions'[p] # NoPosition) =>
             \E i \in Slots :
                /\ iters[i].k \in DOMAIN ConfigPairs
                /\ PairOf(iters[i]) = p
                /\ \/ /\ paperTrading
                      /\ \E aiDecision \in EntryDecisions, volume \in SizedVolumes :
                            /\ DecideEntryReturns(i, aiDecision, volume)
                            /\ GatesPassed(iters[i].riskFilterPass, aiDecision)
                   \/ /\ ~paperTrading
                      /\ BuyOrderReturns(i, TRUE)
                      /\ GatesPassed(iters[i].riskFilterPass, iters[i].aiDecision) ]_vars

C14_Witness ==
    /\ ~paperTrading
    /\ \E p \in OpenPairs : positions[p].entryPrice = 10850
    /\ \E i \in Slots : iters[i].pc = "decideEntry" /\ iters[i].riskFilterPass

----------------------------------------------------------------------------
(* The entry gates: RiskManager in src/src/index.ts.                        *)
(*                                                                          *)
(* Fractions (momentum, thresholds, costs, profit target) and ratios        *)
(* (volumeRatio) are counts of ten-thousandths: 50 is 0.005, 13000 is 1.3.  *)
(* ADX and RSI are whole points, a spread is in whole currency units and a  *)
(* price in thousandths, as above.  The clock counts ticks of which Hour    *)
(* make the 3600000 ms of incrementAICallCount.                             *)

MinADXForEntry == 20

BtcDumpThreshold1h == -150

VolumeSpikeMax == 30000

SpreadWideningPct == 50

ExchangeFeePct == 20

MinProfitMultiplier == 3

MinRiskRewardRatio == 2

AiMaxCallsPerHour == 2

Hour == 2

MaxNow == 4

NoTicker == [spread |-> -1]

CandidatePrices == {100, 10000}

Candidates ==
    [ pair         : Pairs,
      price        : CandidatePrices,
      ticker       : {NoTicker, [spread |-> 1], [spread |-> 500]},
      adx          : {15, 25},
      rsi          : {50, 90},
      momentum1h   : {-100, 50, 100},
      momentum4h   : {50, 100},
      volumeRatio  : {10000, 14000, 35000},
      recentHigh   : {10000, 20000} ]

BtcMomenta == {-200, 0}

ProfitTargets == {40, 100, 500, 1000}

FilterPass(stage) == [pass |-> TRUE, stage |-> stage]

FilterFail(stage) == [pass |-> FALSE, stage |-> stage]

\* RiskManager.checkHealthGate
CheckHealthGate(calls, adx) ==
    IF calls >= AiMaxCallsPerHour THEN FilterFail(1)
    ELSE IF adx < MinADXForEntry THEN FilterFail(1)
    ELSE FilterPass(1)

\* RiskManager.checkDropProtection
CheckDropProtection(pair, ticker, indicators, btc) ==
    IF pair # "BTC/USD" /\ btc < BtcDumpThreshold1h THEN FilterFail(2)
    ELSE IF indicators.volumeRatio > VolumeSpikeMax THEN FilterFail(2)
    ELSE IF /\ ticker # NoTicker
            /\ ticker.spread > 0
            /\ ticker.spread * 10000 > SpreadWideningPct * 90000
         THEN FilterFail(2)
    ELSE FilterPass(2)

EntryQualityNeedsBoth(price, indicators) ==
    LET hasBothPositive   == indicators.momentum1h > 50 /\ indicators.momentum4h > 50
        hasVolumeBreakout == indicators.volumeRatio > 13000 /\ indicators.momentum1h > 0
        passesEntryGate   == hasBothPositive \/ hasVolumeBreakout
    IN  IF price * 1000 > indicators.recentHigh * 995 THEN FilterFail(3)
        ELSE IF indicators.rsi > 85 THEN FilterFail(3)
        ELSE IF ~passesEntryGate THEN FilterFail(3)
        ELSE FilterPass(3)

\* RiskManager.checkEntryQuality
CheckEntryQuality(price, indicators) ==
    LET has1hMomentum     == indicators.momentum1h > 50
        hasBothPositive   == indicators.momentum1h > 50 /\ indicators.momentum4h > 50
        hasVolumeBreakout == indicators.volumeRatio > 13000 /\ indicators.momentum1h > 0
        passesEntryGate   == has1hMomentum \/ hasBothPositive \/ hasVolumeBreakout
    IN  IF price * 1000 > indicators.recentHigh * 995 THEN FilterFail(3)
        ELSE IF indicators.rsi > 85 THEN FilterFail(3)
        ELSE IF ~passesEntryGate THEN FilterFail(3)
        ELSE FilterPass(3)

\* RiskManager.checkAIValidation
CheckAIValidation(confidence) ==
    IF confidence < AiMinConfidence THEN FilterFail(4) ELSE FilterPass(4)

\* RiskManager.calculateCosts
CalculateCosts(pair, profitTarget) ==
    LET feePct        == ExchangeFeePct * 2
        spreadPct     == IF pair = "BTC/USD" \/ pair = "ETH/USD" THEN 3 ELSE 5
        slippagePct   == 1
        totalCostsPct == feePct + spreadPct + slippagePct
        costFloorPct  == totalCostsPct * MinProfitMultiplier
    IN  [ totalCostsPct         |-> totalCostsPct,
          profitTargetPct       |-> profitTarget,
          netEdgePct            |-> profitTarget - totalCostsPct,
          costFloorPct          |-> costFloorPct,
          passesCostFloor       |-> profitTarget >= costFloorPct,
          riskRewardRatio       |-> [num |-> profitTarget, den |-> StopLossPct * 10],
          passesRiskRewardRatio |-> profitTarget >= MinRiskRewardRatio * (StopLossPct * 10) ]

CostFloorWithoutRiskReward(costs) ==
    IF ~costs.passesCostFloor THEN FilterFail(5)
    ELSE IF costs.netEdgePct <= 0 THEN FilterFail(5)
    ELSE FilterPass(5)

\* RiskManager.checkCostFloor
CheckCostFloor(costs) ==
    IF ~costs.passesCostFloor THEN FilterFail(5)
    ELSE IF ~costs.passesRiskRewardRatio THEN FilterFail(5)
    ELSE IF costs.netEdgePct <= 0 THEN FilterFail(5)
    ELSE FilterPass(5)

RunFilterQualityFirst(pair, price, indicators, ticker, profitTarget, calls, btc) ==
    LET health    == CheckHealthGate(calls, indicators.adx)
        drop      == CheckDropProtection(pair, ticker, indicators, btc)
        quality   == CheckEntryQuality(price, indicators)
        costCheck == CheckCostFloor(CalculateCosts(pair, profitTarget))
    IN  IF ~quality.pass THEN quality
        ELSE IF ~health.pass THEN health
        ELSE IF ~drop.pass THEN drop
        ELSE IF ~costCheck.pass THEN costCheck
        ELSE FilterPass(5)

\* RiskManager.runFullRiskFilter
RunFullRiskFilter(pair, price, indicators, ticker, profitTarget, calls, btc) ==
    LET health    == CheckHealthGate(calls, indicators.adx)
        drop      == CheckDropProtection(pair, ticker, indicators, btc)
        quality   == CheckEntryQuality(price, indicators)
        costCheck == CheckCostFloor(CalculateCosts(pair, profitTarget))
    IN  IF ~health.pass THEN health
        ELSE IF ~drop.pass THEN drop
        ELSE IF ~quality.pass THEN quality
        ELSE IF ~costCheck.pass THEN costCheck
        ELSE FilterPass(5)

\* RiskManager.incrementAICallCount
CallsAfterIncrement(calls, reset, time) ==
    IF time - reset > Hour THEN 1 ELSE calls + 1

ResetAfterIncrement(reset, time) ==
    IF time - reset > Hour THEN time ELSE reset

\* tryEntry: profitTarget = currentPrice * config.profitTargetPct, the price
\* in currency units taken as a fraction
EntryProfitTarget(price) == (price * ProfitTargetPct) \div 100

\* what an evaluation leaves in lastFilter: the call, its arguments beyond the
\* candidate, the counter it read, and what it returned or did
Filtered(op, profitTarget, aiDecision, calls, result, validated, accepted) ==
    [ op |-> op, profitTarget |-> profitTarget, aiDecision |-> aiDecision,
      calls |-> calls, result |-> result,
      validated |-> validated, accepted |-> accepted ]

RiskInit ==
    /\ LedgerInit
    /\ BotNotStarted
    /\ RiskManagerInit
    /\ candidate \in Candidates
    /\ lastFilter = NoFilter
    /\ SizerInit
    /\ NothingAsked

RiskUnlessCounted ==
    UNCHANGED <<ledgerVars, loopVars, candidate, sizerVars, detectorVars, statsVars, krakenVars, cacheVars>>

\* time passes
Elapse ==
    /\ now < MaxNow
    /\ now' = now + 1
    /\ UNCHANGED <<aiCallsLastHour, lastAICallReset, btcMomentum1h, lastFilter>>
    /\ RiskUnlessCounted

\* RiskManager.updateBTCMomentum
updateBTCMomentum(momentum) ==
    /\ btcMomentum1h' = momentum
    /\ UNCHANGED <<aiCallsLastHour, lastAICallReset, now, lastFilter>>
    /\ RiskUnlessCounted

\* RiskManager.checkEntryQuality(price, indicators)
checkEntryQuality ==
    /\ lastFilter' = Filtered("checkEntryQuality", 0, NoDecision, aiCallsLastHour,
                              CheckEntryQuality(candidate.price, candidate), FALSE, FALSE)
    /\ UNCHANGED <<aiCallsLastHour, lastAICallReset, btcMomentum1h, now>>
    /\ RiskUnlessCounted

\* RiskManager.checkCostFloor(calculateCosts(pair, price, 0, profitTarget))
checkCostFloor(profitTarget) ==
    /\ lastFilter' = Filtered("checkCostFloor", profitTarget, NoDecision, aiCallsLastHour,
                              CheckCostFloor(CalculateCosts(candidate.pair, profitTarget)),
                              FALSE, FALSE)
    /\ UNCHANGED <<aiCallsLastHour, lastAICallReset, btcMomentum1h, now>>
    /\ RiskUnlessCounted

\* RiskManager.runFullRiskFilter(pair, price, indicators, ticker, profitTarget)
runFullRiskFilter(profitTarget) ==
    /\ lastFilter' = Filtered("runFullRiskFilter", profitTarget, NoDecision, aiCallsLastHour,
                              RunFullRiskFilter(candidate.pair, candidate.price, candidate,
                                                candidate.ticker, profitTarget,
                                                aiCallsLastHour, btcMomentum1h),
                              FALSE, FALSE)
    /\ UNCHANGED <<aiCallsLastHour, lastAICallReset, btcMomentum1h, now>>
    /\ RiskUnlessCounted

\* TradingBot.tryEntry(pair, marketData) up to executeTrade; aiDecision is what
\* decideEntry returns when it is called
tryEntry(aiDecision) ==
    LET profitTarget == EntryProfitTarget(candidate.price)
        riskFilter   == RunFullRiskFilter(candidate.pair, candidate.price, candidate,
                                          candidate.ticker, profitTarget,
                                          aiCallsLastHour, btcMomentum1h)
        blocked      == RiskFilterBlocks(riskFilter.pass)
    IN  /\ aiCallsLastHour' =
              IF blocked THEN aiCallsLastHour
              ELSE CallsAfterIncrement(aiCallsLastHour, lastAICallReset, now)
        /\ lastAICallReset' =
              IF blocked THEN lastAICallReset
              ELSE ResetAfterIncrement(lastAICallReset, now)
        /\ lastFilter' = Filtered("tryEntry", profitTarget, aiDecision, aiCallsLastHour,
                                  riskFilter, ~blocked, ~blocked /\ EntryAccepted(aiDecision))
        /\ UNCHANGED <<btcMomentum1h, now>>
        /\ RiskUnlessCounted

RiskNext ==
    \/ Elapse
    \/ \E momentum \in BtcMomenta : updateBTCMomentum(momentum)
    \/ checkEntryQuality
    \/ \E profitTarget \in ProfitTargets : checkCostFloor(profitTarget)
    \/ \E profitTarget \in ProfitTargets : runFullRiskFilter(profitTarget)
    \/ \E aiDecision \in EntryDecisions : tryEntry(aiDecision)

SpecRisk == RiskInit /\ [][RiskNext]_vars

----------------------------------------------------------------------------
(* Properties of the entry gates *)

\* Stage 1 fails: the call budget is used up or ADX is below the minimum
Stage1Fails(calls, adx) ==
    calls >= AiMaxCallsPerHour \/ adx < MinADXForEntry

\* C15: runFullRiskFilter returns the result of the first failing stage in
\* the order 1, 2, 3, 5: a candidate that fails Stage 1 gets pass=false with
\* stage=1 whatever Stages 2, 3 and 5 would say, and pass=true is returned only
\* if no stage fails.
C15_FirstFailingStage ==
    [][ \A profitTarget \in ProfitTargets :
          runFullRiskFilter(profitTarget) =>
             LET r         == lastFilter'.result
                 failed1   == Stage1Fails(aiCallsLastHour, candidate.adx)
                 drop      == CheckDropProtection(candidate.pair, candidate.ticker,
                                                  candidate, btcMomentum1h)
                 quality   == CheckEntryQuality(candidate.price, candidate)
                 costCheck == CheckCostFloor(CalculateCosts(candidate.pair, profitTarget))
             IN  /\ failed1 => r = FilterFail(1)
                 /\ (~failed1 /\ ~drop.pass) => r = FilterFail(2)
                 /\ (~failed1 /\ drop.pass /\ ~quality.pass) => r = FilterFail(3)
                 /\ (~failed1 /\ drop.pass /\ quality.pass /\ ~costCheck.pass)
                       => r = FilterFail(5)
                 /\ r.pass <=> (~failed1 /\ drop.pass /\ quality.pass /\ costCheck.pass)
      ]_vars

C15_Witness ==
    /\ lastFilter.op = "runFullRiskFilter"
    /\ lastFilter.result = FilterFail(1)
    /\ candidate.adx < MinADXForEntry
    /\ candidate.rsi > 85
    /\ candidate.volumeRatio > VolumeSpikeMax
    /\ lastFilter.profitTarget = 40

\* C16: once more than an hour has passed since the call counter was last
\* reset, Stage 1 does not fail a candidate whose ADX is at least the minimum:
\* a used-up call budget does not outlast its period.
C16_BudgetRecoversAfterPeriod ==
    [][ \A aiDecision \in EntryDecisions :
          ( /\ tryEntry(aiDecision)
            /\ now - lastAICallReset > Hour
            /\ candidate.adx >= MinADXForEntry )
          => lastFilter'.result # FilterFail(1) ]_vars

\* C17: a candidate that passes Stages 1 to 3 and whose validation confidence
\* is below aiMinConfidence is rejected by the entry pipeline with stage=4,
\* whatever Stage 5 would say.
C17_Stage4BeforeStage5 ==
    [][ \A aiDecision \in EntryDecisions :
          ( /\ tryEntry(aiDecision)
            /\ ~Stage1Fails(aiCallsLastHour, candidate.adx)
            /\ CheckDropProtection(candidate.pair, candidate.ticker,
                                   candidate, btcMomentum1h).pass
            /\ CheckEntryQuality(candidate.price, candidate).pass
            /\ aiDecision.confidence < AiMinConfidence )
          => lastFilter'.result = CheckAIValidation(aiDecision.confidence) ]_vars

\* fees both ways, spread and slippage of a round trip, in ten-thousandths
RoundTripCost(pair) == CalculateCosts(pair, 0).totalCostsPct

\* C18: checkCostFloor returns pass=true with stage=5 exactly when the profit
\* target is at least the round-trip cost times minProfitMultiplier, the ratio
\* of target to stopLossPct is at least minRiskRewardRatio, and the target
\* exceeds the cost; otherwise it returns pass=false with stage=5.
C18_CostFloorAllThree ==
    [][ \A profitTarget \in ProfitTargets :
          checkCostFloor(profitTarget) =>
             LET cost     == RoundTripCost(candidate.pair)
                 allThree == /\ profitTarget >= cost * MinProfitMultiplier
                             /\ profitTarget >= MinRiskRewardRatio * (StopLossPct * 10)
                             /\ profitTarget - cost > 0
             IN  lastFilter'.result = [pass |-> allThree, stage |-> 5] ]_vars

C18_Witness ==
    /\ lastFilter.op = "checkCostFloor"
    /\ lastFilter.profitTarget = 500
    /\ lastFilter.result = FilterFail(5)

MomentumFloor == 50

\* C19: checkEntryQuality fails, with stage=3, exactly when the price is above
\* 0.995 of the recent high, or RSI is above 85, or none of the three momentum
\* paths holds (momentum1h above the floor; momentum1h and momentum4h above
\* the floor; volumeRatio above 1.3 with positive momentum1h); so momentum1h
\* above the floor meets the momentum requirement whatever momentum4h is.
C19_EntryQuality ==
    [][ checkEntryQuality =>
          LET c         == candidate
              nearHigh  == c.price * 1000 > 995 * c.recentHigh
              path1     == c.momentum1h > MomentumFloor
              path2     == c.momentum1h > MomentumFloor /\ c.momentum4h > MomentumFloor
              path3     == c.volumeRatio > 13000 /\ c.momentum1h > 0
              fails     == nearHigh \/ c.rsi > 85 \/ ~(path1 \/ path2 \/ path3)
          IN  /\ lastFilter'.result = [pass |-> ~fails, stage |-> 3]
              /\ (path1 /\ ~nearHigh /\ c.rsi <= 85) => lastFilter'.result.pass ]_vars

C19_Witness ==
    /\ lastFilter.op = "checkEntryQuality"
    /\ lastFilter.result = FilterPass(3)
    /\ candidate.momentum1h > MomentumFloor
    /\ candidate.momentum4h <= MomentumFloor
    /\ candidate.volumeRatio <= 13000

\* ---------------------------------------------------------------------------
\* Position sizing: DynamicPositionSizer
\* ---------------------------------------------------------------------------

\* JavaScript arithmetic on numbers, NaN and the infinities
JsMul(a, b) ==
    IF a.kind = "nan" \/ b.kind = "nan" THEN NaN
    ELSE IF a.kind = "inf" \/ b.kind = "inf"
         THEN IF Sign(a) = 0 \/ Sign(b) = 0 THEN NaN ELSE Inf(Sign(a) * Sign(b))
         ELSE Num(a.num * b.num, a.den * b.den)

JsDiv(a, b) ==
    IF a.kind = "nan" \/ b.kind = "nan" THEN NaN
    ELSE IF a.kind = "inf"
         THEN IF b.kind = "inf" THEN NaN
              ELSE Inf(Sign(a) * (IF Sign(b) < 0 THEN -1 ELSE 1))
         ELSE IF b.kind = "inf" THEN Num(0, 1)
              ELSE IF b.num = 0
                   THEN IF a.num = 0 THEN NaN ELSE Inf(Sign(a))
                   ELSE Num(a.num * b.den, a.den * b.num)

JsAdd(a, b) ==
    IF a.kind = "nan" \/ b.kind = "nan" THEN NaN
    ELSE IF a.kind = "inf"
         THEN IF b.kind = "inf" /\ Sign(a) # Sign(b) THEN NaN ELSE a
         ELSE IF b.kind = "inf" THEN b
              ELSE Num(a.num * b.den + b.num * a.den, a.den * b.den)

JsSub(a, b) == JsAdd(a, [b EXCEPT !.num = -b.num])

\* a < b for two values that are not NaN
JsLess(a, b) ==
    IF a.kind = "inf" /\ b.kind = "inf" THEN a.num < b.num
    ELSE IF a.kind = "inf" THEN a.num < 0
         ELSE IF b.kind = "inf" THEN b.num > 0
              ELSE a.num * b.den < b.num * a.den

\* Math.min and Math.max return NaN when an argument is NaN
MathMin(a, b) ==
    IF a.kind = "nan" \/ b.kind = "nan" THEN NaN
    ELSE IF JsLess(a, b) THEN a ELSE b

MathMax(a, b) ==
    IF a.kind = "nan" \/ b.kind = "nan" THEN NaN
    ELSE IF JsLess(a, b) THEN b ELSE a

MAX_RISK_PER_TRADE == Num(10, 100)
MIN_RISK_PER_TRADE == Num(1, 100)
KELLY_FRACTION == Num(25, 100)
MIN_AI_CONFIDENCE == 50
MAX_AI_CONFIDENCE == 95

\* the balances initializeBalance and syncBalance hand to updateBalance
Balances == {0, 10000}

\* the confidences calculateRiskPerTrade is called with
Confidences == {0, 50, 70, 95, 100}

MaxWins == 2
MaxLosses == 2

\* what getPerformanceStats returns: a closed position with a positive profit
\* is a win and adds to totalProfit, any other is a loss and adds to totalLoss
PerformanceStats ==
    { st \in [ totalTrades : 0..(MaxWins + MaxLosses), winningTrades : 0..MaxWins,
               losingTrades : 0..MaxLosses, totalProfit : {0, 250, 2000},
               totalLoss : {0, 150} ] :
        /\ st.totalTrades = st.winningTrades + st.losingTrades
        /\ (st.totalProfit > 0) = (st.winningTrades > 0)
        /\ (st.losingTrades = 0) => (st.totalLoss = 0) }

UpdatedBalance(sizer, newBalance) ==
    IF newBalance # sizer.accountBalance
    THEN [sizer EXCEPT !.accountBalance = newBalance]
    ELSE sizer

UpdatedPerformance(sizer, stats) ==
    LET counted == [sizer EXCEPT !.totalTrades = stats.totalTrades,
                                 !.totalWins = stats.winningTrades,
                                 !.totalLosses = stats.losingTrades]
    IN  IF counted.totalTrades > 0
        THEN [counted EXCEPT
                !.avgWinPct =
                    IF counted.totalWins > 0
                    THEN JsDiv(Num(stats.totalProfit, 1),
                               Num(counted.totalWins * counted.accountBalance, 1))
                    ELSE Num(25, 1000),
                !.avgLossPct =
                    IF counted.totalLosses > 0
                    THEN JsDiv(Num(stats.totalLoss, 1),
                               Num(counted.totalLosses * counted.accountBalance, 1))
                    ELSE Num(15, 1000)]
        ELSE counted

GetWinRate(sizer) ==
    IF sizer.totalTrades = 0 THEN Num(1, 2)
    ELSE Num(sizer.totalWins, sizer.totalTrades)

CalculateKellyFraction(sizer) ==
    IF sizer.totalTrades = 0 THEN Num(5, 100)
    ELSE LET winRate == GetWinRate(sizer)
             lossRate == JsSub(Num(1, 1), winRate)
             kellyPct == JsDiv(JsSub(JsMul(winRate, sizer.avgWinPct),
                                     JsMul(lossRate, sizer.avgLossPct)),
                               sizer.avgWinPct)
             safeFraction == MathMax(Num(1, 100), MathMin(Num(10, 100), kellyPct))
         IN  JsMul(safeFraction, KELLY_FRACTION)

CalculateRiskPerTrade(sizer, aiConfidence) ==
    LET kellyRisk == CalculateKellyFraction(sizer)
        confidenceNormalized == Num(aiConfidence - MIN_AI_CONFIDENCE,
                                    MAX_AI_CONFIDENCE - MIN_AI_CONFIDENCE)
        confidenceMultiplier == JsAdd(Num(1, 2), JsMul(confidenceNormalized, Num(3, 2)))
        riskPerTrade == JsMul(kellyRisk, confidenceMultiplier)
    IN  MathMax(MIN_RISK_PER_TRADE, MathMin(MAX_RISK_PER_TRADE, riskPerTrade))

SizerUnlessSized == UNCHANGED <<ledgerVars, loopVars, riskVars, detectorVars, statsVars, krakenVars, cacheVars>>

updateBalance(newBalance) ==
    /\ positionSizer' = UpdatedBalance(positionSizer, newBalance)
    /\ UNCHANGED lastRisk
    /\ SizerUnlessSized

updatePerformance(stats) ==
    /\ positionSizer' = UpdatedPerformance(positionSizer, stats)
    /\ UNCHANGED lastRisk
    /\ SizerUnlessSized

calculateRiskPerTrade(aiConfidence) ==
    /\ lastRisk' = [aiConfidence |-> aiConfidence,
                    risk |-> CalculateRiskPerTrade(positionSizer, aiConfidence)]
    /\ UNCHANGED positionSizer
    /\ SizerUnlessSized

SizerNext ==
    \/ \E newBalance \in Balances : updateBalance(newBalance)
    \/ \E stats \in PerformanceStats : updatePerformance(stats)
    \/ \E aiConfidence \in Confidences : calculateRiskPerTrade(aiConfidence)

SpecSizer == Init /\ [][SizerNext]_vars

\* ---------------------------------------------------------------------------
\* Properties of position sizing
\* ---------------------------------------------------------------------------

\* the bounds config.minRiskPerTrade and config.maxRiskPerTrade default to
ConfigMinRiskPerTrade == Num(1, 100)
ConfigMaxRiskPerTrade == Num(10, 100)

\* C20: the risk fraction calculateRiskPerTrade returns is a defined number
\* (not NaN, not infinite) within [minRiskPerTrade, maxRiskPerTrade], for every
\* confidence in [0, 100] and every trailing-performance state
C20_RiskFractionBounded ==
    lastRisk # NoRisk =>
        /\ lastRisk.risk.kind = "num"
        /\ ~JsLess(lastRisk.risk, ConfigMinRiskPerTrade)
        /\ ~JsLess(ConfigMaxRiskPerTrade, lastRisk.risk)

\* the same, for the calls made while both trailing averages are finite numbers
RiskBoundedOnDefinedAverages ==
    [][ \A aiConfidence \in Confidences :
          ( /\ calculateRiskPerTrade(aiConfidence)
            /\ positionSizer.avgWinPct.kind = "num"
            /\ positionSizer.avgLossPct.kind = "num" )
          => /\ lastRisk'.risk.kind = "num"
             /\ ~JsLess(lastRisk'.risk, ConfigMinRiskPerTrade)
             /\ ~JsLess(ConfigMaxRiskPerTrade, lastRisk'.risk) ]_vars

\* ---------------------------------------------------------------------------
\* Entering a position: TradingBot.executeTrade
\* Prices are in hundredths of a currency unit, volumes and balances in whole
\* units.
\* ---------------------------------------------------------------------------

ExposurePrices == {1000, 1250}

\* the decisions tryEntry hands to executeTrade
AcceptedDecisions == {d \in EntryDecisions : EntryAccepted(d)}

\* DynamicPositionSizer.calculatePositionSize
CalculatePositionSize(sizer, aiConfidence, currentPrice, stopLossPct) ==
    LET riskPerTrade == CalculateRiskPerTrade(sizer, aiConfidence)
        riskUSD      == JsMul(Num(sizer.accountBalance, 1), riskPerTrade)
        sizeUSD      == JsDiv(riskUSD, stopLossPct)
        sizeAsset    == JsDiv(sizeUSD, currentPrice)
    IN  [sizeUSD |-> sizeUSD, sizeAsset |-> sizeAsset, riskUSD |-> riskUSD]

\* the whole units of a finite size
WholeUnits(size) == size.num \div size.den

\* DynamicPositionSizer.canAddPosition, amounts in hundredths
OpenRisk(ps) ==
    LET RECURSIVE Sum(_)
        Sum(S) == IF S = {} THEN 0
                  ELSE LET p == CHOOSE q \in S : TRUE
                       IN  Abs(ps[p].entryPrice - ps[p].stopLoss) * ps[p].totalVolume
                           + Sum(S \ {p})
    IN  Sum({p \in Pairs : ps[p] # NoPosition})

MaxOpenRisk(sizer) == sizer.accountBalance * 5

CanAddPosition(sizer, ps, newRisk) == ~(OpenRisk(ps) + newRisk > MaxOpenRisk(sizer))

\* executeTrade with dynamic sizing on; orderId is what placeOrder returned in
\* live trading
executeTrade(pair, currentPrice, aiDecision, orderId) ==
    LET sized == CalculatePositionSize(positionSizer, aiDecision.confidence,
                                       Num(currentPrice, 100), Num(StopLossPct, 1000))
    IN  IF paperTrading \/ orderId
        THEN addPosition(pair, currentPrice, WholeUnits(sized.sizeAsset),
                         StopLossLevel(currentPrice), ProfitTargetLevel(currentPrice),
                         PyramidErosionCapTrend)
        ELSE UNCHANGED vars

ExposureNext ==
    \/ \E pair \in Pairs, currentPrice \in ExposurePrices,
          aiDecision \in AcceptedDecisions, orderId \in BOOLEAN :
          executeTrade(pair, currentPrice, aiDecision, orderId)
    \/ \E pair \in Pairs, exitPrice \in ExposurePrices, exitReason \in ExitReasons :
          closePosition(pair, exitPrice, exitReason, TRUE)

SpecExposure == Init /\ [][ExposureNext]_vars

\* ---------------------------------------------------------------------------
\* Properties of concurrent exposure
\* ---------------------------------------------------------------------------

\* C21: when executeTrade opens a position, the risk at stake summed over all
\* open positions, the new one included, is at most 5% of the account balance
C21_ExposureGuard ==
    [][ \A pair \in Pairs, currentPrice \in ExposurePrices,
           aiDecision \in AcceptedDecisions, orderId \in BOOLEAN :
          ( /\ executeTrade(pair, currentPrice, aiDecision, orderId)
            /\ positions[pair] = NoPosition
            /\ positions'[pair] # NoPosition )
          => ~(OpenRisk(positions') > MaxOpenRisk(positionSizer)) ]_vars

\* ---------------------------------------------------------------------------
\* Properties of updatePosition
\* ---------------------------------------------------------------------------

\* the legs of a position: the initial entry, then the recorded pyramid levels
Legs(position) ==
    <<[entryPrice |-> position.entryPrice, volume |-> position.volume]>>
    \o [n \in 1..Len(position.pyramidLevels) |->
          [entryPrice |-> position.pyramidLevels[n].entryPrice,
           volume     |-> position.pyramidLevels[n].volume]]

RECURSIVE LegProfit(_, _, _)
LegProfit(legs, n, price) ==
    IF n = 0 THEN 0
    ELSE (price - legs[n].entryPrice) * legs[n].volume + LegProfit(legs, n - 1, price)

RECURSIVE LegCost(_, _)
LegCost(legs, n) ==
    IF n = 0 THEN 0
    ELSE legs[n].entryPrice * legs[n].volume + LegCost(legs, n - 1)

\* C22: updatePosition(pair, price) sets currentProfit to the sum over the
\* initial leg and every pyramid level of (price - legEntryPrice) * legVolume
\* and profitPct to currentProfit / total cost * 100 (0 when the cost is 0);
\* with no open position for the pair it changes nothing in the ledger
C22_UpdateProfitOverAllLegs ==
    [][ \A pair \in Pairs, price \in Prices :
          updatePosition(pair, price) =>
            IF positions[pair] = NoPosition
            THEN UNCHANGED <<positions, closedPositions, disk>>
            ELSE LET legs   == Legs(positions[pair])
                     profit == LegProfit(legs, Len(legs), price)
                     cost   == LegCost(legs, Len(legs))
                     after  == positions'[pair]
                 IN  /\ after.currentProfit = profit
                     /\ IF cost > 0
                        THEN after.profitPct.num * cost = profit * 100 * after.profitPct.den
                        ELSE after.profitPct.num = 0
                     /\ UNCHANGED <<closedPositions, disk>>
                     /\ \A other \in Pairs \ {pair} : positions'[other] = positions[other] ]_vars

C22_Witness ==
    \E pair \in Pairs :
        /\ lastCall.op = "updatePosition"
        /\ lastCall.pair = pair
        /\ positions[pair] # NoPosition
        /\ Len(positions[pair].pyramidLevels) > 0
        /\ positions[pair].currentProfit # 0

\* ---------------------------------------------------------------------------
\* Properties of pyramid adds in the loop
\* ---------------------------------------------------------------------------

\* the step added a pyramid level to the open position of pair
LevelAdded(pair) ==
    /\ positions[pair] # NoPosition
    /\ positions'[pair] # NoPosition
    /\ Len(positions'[pair].pyramidLevels) = Len(positions[pair].pyramidLevels) + 1

\* the level the step added
AddedLevel(pair) ==
    positions'[pair].pyramidLevels[Len(positions'[pair].pyramidLevels)].level

LevelTrigger(level) ==
    Thousandths(IF level = 1 THEN PyramidL1TriggerPct ELSE PyramidL2TriggerPct)

LevelConfidenceMin(level) ==
    IF level = 1 THEN PyramidL1ConfidenceMin ELSE PyramidL2ConfidenceMin

\* C23: the loop adds level 1 only when no level is active and level 2 only
\* when level 1 is active and level 2 is not, and either only if the position's
\* current profit fraction is at least the level's trigger, the advisory
\* decision has shouldAdd and its confidence is at least the level's minimum
C23_PyramidAddGates ==
    [][ \A i \in Slots, pyramidDecision \in PyramidDecisions, pair \in Pairs :
          ( PyramidDecisionReturns(i, pyramidDecision) /\ LevelAdded(pair) ) =>
            LET level == AddedLevel(pair)
                held  == positions[pair]
            IN  /\ level = 1 => held.pyramidLevelsActivated = 0
                /\ level = 2 => HasLevel(held, 1) /\ ~HasLevel(held, 2)
                /\ FracGeq(ProfitFraction(held), LevelTrigger(level))
                /\ pyramidDecision.shouldAdd
                /\ pyramidDecision.confidence >= LevelConfidenceMin(level) ]_vars

\* the same with the profit fraction read when the add was asked for
PyramidAddGatesAtRequest ==
    [][ \A i \in Slots, pyramidDecision \in PyramidDecisions, pair \in Pairs :
          ( PyramidDecisionReturns(i, pyramidDecision) /\ LevelAdded(pair) ) =>
            LET level == AddedLevel(pair)
                held  == positions[pair]
            IN  /\ level = 1 => held.pyramidLevelsActivated = 0
                /\ level = 2 => HasLevel(held, 1) /\ ~HasLevel(held, 2)
                /\ FracGeq(iters[i].profitFraction, LevelTrigger(level))
                /\ pyramidDecision.shouldAdd
                /\ pyramidDecision.confidence >= LevelConfidenceMin(level) ]_vars

\* ---------------------------------------------------------------------------
\* The momentum failure detector: TradingBot.detectMomentumFailure
\* Thresholds and the volume ratio are in ten-thousandths, the momenta in
\* ten-thousandths of a percentage point.
\* ---------------------------------------------------------------------------

Momentum1hFailureThreshold == -30
Momentum4hFailureThreshold == -50
VolumeExhaustionThreshold1h == 9000
VolumeExhaustionThreshold4h == 10000
HtfMomentumWeakening == 50
PriceNearPeakThreshold == 9800

\* the positions, market data and configurations the detector is asked about
MomentumInputs ==
    [ enabled                : BOOLEAN,
      requiredSignals        : {1, 2, 3},
      profitPct              : { [num |-> -100, den |-> 100], [num |-> 100, den |-> 100],
                                 [num |-> 200, den |-> 100], [num |-> 500, den |-> 100] },
      pyramidLevelsActivated : {0, 1, 2},
      currentPrice           : {10000},
      momentum1h             : {-6000, -4000, -3000, 0},
      momentum4h             : {4000, 5000},
      volumeRatio            : {8500, 9500, 10000},
      recentHigh             : {0, 10000, 11000},
      ema200                 : {0, 9000, 11000} ]

QuietResult ==
    [ shouldExit  |-> FALSE,
      signals     |-> [priceActionFailure |-> FALSE, volumeExhaustion |-> FALSE,
                       htfBreakdown |-> FALSE],
      signalCount |-> 0 ]

\* gates 1 and 2
GateOnEnabledOnly(input) == input.enabled

MomentumGatesPass(input) ==
    /\ input.enabled
    /\ ~FracLess(ProfitFraction(input), Thousandths(MomentumFailureMinProfit))

Use1hThresholdsAlways(input) == FALSE

Use4hThresholds(input) == input.pyramidLevelsActivated >= 1

MomentumThreshold(input) ==
    IF Use4hThresholds(input) THEN Momentum4hFailureThreshold ELSE Momentum1hFailureThreshold

VolumeThreshold(input) ==
    IF Use4hThresholds(input) THEN VolumeExhaustionThreshold4h ELSE VolumeExhaustionThreshold1h

\* currentPrice / recentHigh >= priceNearPeakThreshold; the quotient is
\* Infinity when recentHigh is 0
PriceNearPeak(input) ==
    IF input.recentHigh = 0 THEN TRUE
    ELSE input.currentPrice * 10000 >= PriceNearPeakThreshold * input.recentHigh

PriceActionFailure(input) ==
    LET momentum1hNegative == input.momentum1h < MomentumThreshold(input) * 100
    IN  IF PriceNearPeak(input) /\ momentum1hNegative THEN TRUE
        ELSE input.momentum1h < MomentumThreshold(input) * 100

VolumeExhaustion(input) == input.volumeRatio < VolumeThreshold(input)

HtfBreakdown(input) ==
    LET htfMomentumWeak == input.momentum4h < HtfMomentumWeakening * 100
        belowEMA200     == input.currentPrice < input.ema200
    IN  IF htfMomentumWeak THEN TRUE
        ELSE belowEMA200 /\ input.ema200 > 0

ExitOnAnySignal(signalCount, requiredSignals) == signalCount >= 1

ExitDecision(signalCount, requiredSignals) == signalCount >= requiredSignals

DetectMomentumFailure(input) ==
    IF ~MomentumGatesPass(input) THEN QuietResult
    ELSE LET s1 == PriceActionFailure(input)
             s2 == VolumeExhaustion(input)
             s3 == HtfBreakdown(input)
             signalCount == (IF s1 THEN 1 ELSE 0) + (IF s2 THEN 1 ELSE 0)
                            + (IF s3 THEN 1 ELSE 0)
         IN  [ shouldExit  |-> ExitDecision(signalCount, input.requiredSignals),
               signals     |-> [priceActionFailure |-> s1, volumeExhaustion |-> s2,
                                htfBreakdown |-> s3],
               signalCount |-> signalCount ]

DetectorInit ==
    /\ LedgerInit /\ BotNotStarted /\ RiskManagerInit /\ NoCandidateYet /\ SizerInit
    /\ momentumInput \in MomentumInputs
    /\ momentumResult = NoMomentumResult
    /\ lastStats = NoStats
    /\ ClientsNotUsed

detectMomentumFailure ==
    /\ momentumResult' = DetectMomentumFailure(momentumInput)
    /\ UNCHANGED <<ledgerVars, loopVars, riskVars, sizerVars, momentumInput, statsVars, krakenVars, cacheVars>>

DetectorNext == detectMomentumFailure

SpecDetector == DetectorInit /\ [][DetectorNext]_vars

\* ---------------------------------------------------------------------------
\* Properties of the momentum failure detector
\* ---------------------------------------------------------------------------

Detected == momentumResult # NoMomentumResult

BelowMinProfit(input) ==
    FracLess(ProfitFraction(input), Thousandths(MomentumFailureMinProfit))

\* C24: with the feature disabled or the profit fraction below
\* momentumFailureMinProfit the detector returns shouldExit = false, all three
\* signals false and signalCount 0, whatever the indicators are
C24_GatesKeepDetectorQuiet ==
    ( Detected /\ (~momentumInput.enabled \/ BelowMinProfit(momentumInput)) ) =>
        /\ ~momentumResult.shouldExit
        /\ momentumResult.signalCount = 0
        /\ ~momentumResult.signals.priceActionFailure
        /\ ~momentumResult.signals.volumeExhaustion
        /\ ~momentumResult.signals.htfBreakdown

\* the detector was asked about an enabled feature and a profit below the
\* minimum while all three signal conditions were met
C24_Witness ==
    /\ Detected
    /\ momentumInput.enabled
    /\ BelowMinProfit(momentumInput)
    /\ momentumInput.momentum1h < -5000
    /\ momentumInput.volumeRatio < 9000
    /\ momentumInput.momentum4h < 5000
    /\ momentumInput.requiredSignals = 2

TrueSignals(result) ==
    Cardinality({ f \in {"priceActionFailure", "volumeExhaustion", "htfBreakdown"} :
                    result.signals[f] })

\* C25: when both gates pass shouldExit is true iff the number of true signals
\* is at least momentumFailureRequiredSignals, and signalCount always equals
\* the number of signal flags that are true
C25_ExitIffEnoughSignals ==
    Detected =>
        /\ momentumResult.signalCount = TrueSignals(momentumResult)
        /\ ( momentumInput.enabled /\ ~BelowMinProfit(momentumInput) ) =>
             ( momentumResult.shouldExit
               <=> TrueSignals(momentumResult) >= momentumInput.requiredSignals )

\* gates passed, one signal of a required two
C25_Witness ==
    /\ Detected
    /\ momentumInput.enabled
    /\ ~BelowMinProfit(momentumInput)
    /\ momentumInput.requiredSignals = 2
    /\ TrueSignals(momentumResult) = 1
    /\ ~momentumResult.shouldExit

ActiveMomentumThreshold(input) ==
    IF input.pyramidLevelsActivated > 0 THEN -5000 ELSE -3000

ActiveVolumeThreshold(input) ==
    IF input.pyramidLevelsActivated > 0 THEN 10000 ELSE 9000

\* C26: with both gates passed, signal 1 is true iff the 1h momentum is below
\* the active momentum threshold, signal 2 iff the volume ratio is below the
\* active volume threshold, signal 3 iff the 4h momentum is below the weakening
\* threshold or the price is below the long EMA; the active thresholds are the
\* longer-horizon ones once a pyramid level is active
C26_SignalsMatchPredicates ==
    ( Detected /\ momentumInput.enabled /\ ~BelowMinProfit(momentumInput) ) =>
        /\ momentumResult.signals.priceActionFailure
             <=> momentumInput.momentum1h < ActiveMomentumThreshold(momentumInput)
        /\ momentumResult.signals.volumeExhaustion
             <=> momentumInput.volumeRatio < ActiveVolumeThreshold(momentumInput)
        /\ momentumResult.signals.htfBreakdown
             <=> ( \/ momentumInput.momentum4h < 5000
                   \/ momentumInput.currentPrice < momentumInput.ema200 )

\* a pyramided position whose 1h momentum and volume are below the
\* shorter-horizon thresholds only
C26_Witness ==
    /\ Detected
    /\ momentumInput.enabled
    /\ ~BelowMinProfit(momentumInput)
    /\ momentumInput.pyramidLevelsActivated = 1
    /\ momentumInput.momentum1h = -4000
    /\ momentumInput.volumeRatio = 9500
    /\ ~momentumResult.signals.priceActionFailure
    /\ momentumResult.signals.volumeExhaustion

\* ---------------------------------------------------------------------------
\* Restarting on the same data directory
\* ---------------------------------------------------------------------------

\* a closed trade an earlier process left in positions.json
EarlierTrade ==
    ClosedSnapshot(NewPosition("ETH/USD", 8, 2, 4, 12, DefaultErosionCap), 12, "Profit Target")

EarlierFiles == { <<>>, SavedPositions(<<EarlierTrade>>) }

\* new PositionTracker(dataDir) on a directory with or without a history
RestartInit ==
    /\ disk \in EarlierFiles
    /\ closedPositions = LoadedPositions(disk)
    /\ positions = [p \in Pairs |-> NoPosition]
    /\ lastCall = NoCall
    /\ opCount = 0
    /\ BotNotStarted /\ RiskManagerInit /\ NoCandidateYet /\ SizerInit /\ NothingAsked

\* the process ends and a new PositionTracker is constructed on the directory
restart ==
    /\ positions' = [p \in Pairs |-> NoPosition]
    /\ closedPositions' = LoadedPositions(disk)
    /\ Counted(TRUE)
    /\ lastCall' = Call("restart", "", 0, TRUE)
    /\ UNCHANGED disk
    /\ UNCHANGED loopVars
    /\ UNCHANGED <<riskVars, sizerVars, detectorVars, statsVars, krakenVars, cacheVars>>

\* the ledger with every write to positions.json succeeding
RestartNext ==
    \/ \E pair \in Pairs, entryPrice \in EntryPrices, volume \in Volumes :
          addPosition(pair, entryPrice, volume, 4, 12, DefaultErosionCap)
    \/ \E pair \in Pairs, currentPrice \in Prices :
          updatePosition(pair, currentPrice)
    \/ \E pair \in Pairs, level \in Levels, entryPrice \in LevelPrices, volume \in LevelVolumes :
          addPyramidLevel(pair, level, entryPrice, volume, 85)
    \/ \E pair \in Pairs, exitPrice \in ExitPrices, exitReason \in ExitReasons :
          closePosition(pair, exitPrice, exitReason, TRUE)
    \/ clearAll
    \/ restart

SpecRestart == RestartInit /\ [][RestartNext]_vars

C28_FailedWriteKeepsClose ==
    [][ \A pair \in Pairs, exitPrice \in ExitPrices, exitReason \in ExitReasons :
          ( closePosition(pair, exitPrice, exitReason, FALSE)
            /\ positions[pair] # NoPosition ) =>
            /\ lastCall'.op = "closePosition" /\ lastCall'.result
            /\ positions'[pair] = NoPosition
            /\ Len(closedPositions') = Len(closedPositions) + 1
            /\ SubSeq(closedPositions', 1, Len(closedPositions)) = closedPositions
            /\ LET closed == closedPositions'[Len(closedPositions')]
               IN  /\ closed.pair = pair
                   /\ closed.status = "closed"
                   /\ closed.exitPrice = exitPrice
                   /\ closed.exitReason = exitReason
            /\ disk' = disk ]_vars

\* a close whose write failed, then the pair entered again: the history holds
\* the close, the file does not
C28_Witness ==
    \E pair \in Pairs :
        /\ lastCall.op = "addPosition"
        /\ positions[pair] # NoPosition
        /\ Len(closedPositions) = 1
        /\ closedPositions[1].pair = pair
        /\ disk = <<>>

\* ---------------------------------------------------------------------------
\* Statistics over the closed history: PositionTracker.getPerformanceStats
\* ---------------------------------------------------------------------------

MaxHistory == 3

\* closed trades of one unit or two entered at 8 and left at 4, 8 or 12
ClosedTrades ==
    { ClosedSnapshot(NewPosition("BTC/USD", 8, volume, 4, 12, DefaultErosionCap),
                     exitPrice, "Stop Loss") :
        volume \in Volumes, exitPrice \in {4, 8, 12} }

RECURSIVE HistoriesOfLength(_)
HistoriesOfLength(n) ==
    IF n = 0 THEN { <<>> }
    ELSE { Append(h, t) : h \in HistoriesOfLength(n - 1), t \in ClosedTrades }

Histories == UNION { HistoriesOfLength(n) : n \in 0..MaxHistory }

ZeroStats ==
    [ totalTrades |-> 0, winningTrades |-> 0, losingTrades |-> 0, winRate |-> Num(0, 1),
      totalProfit |-> 0, totalLoss |-> 0, expectancy |-> Num(0, 1),
      profitFactor |-> Num(0, 1), maxDrawdown |-> 0, maxDrawdownPct |-> Num(0, 1) ]

StartOfLoop ==
    [ totalProfit |-> 0, totalLoss |-> 0, winningTrades |-> 0, losingTrades |-> 0,
      maxDrawdown |-> 0, cumulativeProfit |-> 0, peak |-> 0 ]

PeakStaysZero(peak, cumulativeProfit) == peak

NextPeak(peak, cumulativeProfit) ==
    IF cumulativeProfit > peak THEN cumulativeProfit ELSE peak

\* one pass of the loop over closedPositions
AfterTrade(acc, profit) ==
    LET cumulativeProfit == acc.cumulativeProfit + profit
        peak             == NextPeak(acc.peak, cumulativeProfit)
        drawdown         == peak - cumulativeProfit
    IN  [ totalProfit      |-> IF profit > 0 THEN acc.totalProfit + profit ELSE acc.totalProfit,
          totalLoss        |-> IF profit > 0 THEN acc.totalLoss ELSE acc.totalLoss + Abs(profit),
          winningTrades    |-> IF profit > 0 THEN acc.winningTrades + 1 ELSE acc.winningTrades,
          losingTrades     |-> IF profit > 0 THEN acc.losingTrades ELSE acc.losingTrades + 1,
          maxDrawdown      |-> IF drawdown > acc.maxDrawdown THEN drawdown ELSE acc.maxDrawdown,
          cumulativeProfit |-> cumulativeProfit,
          peak             |-> peak ]

RECURSIVE AfterTrades(_, _)
AfterTrades(history, n) ==
    IF n = 0 THEN StartOfLoop
    ELSE AfterTrade(AfterTrades(history, n - 1), history[n].currentProfit)

ProfitFactorUnguarded(totalProfit, totalLoss) ==
    JsDiv(Num(totalProfit, 1), Num(totalLoss, 1))

ProfitFactor(totalProfit, totalLoss) ==
    IF totalLoss > 0 THEN JsDiv(Num(totalProfit, 1), Num(totalLoss, 1))
    ELSE IF totalProfit > 0 THEN Inf(1) ELSE Num(0, 1)

GetPerformanceStats(history) ==
    IF Len(history) = 0 THEN ZeroStats
    ELSE LET acc         == AfterTrades(history, Len(history))
             totalTrades == Len(history)
             totalGain   == acc.totalProfit - acc.totalLoss
         IN  [ totalTrades    |-> totalTrades,
               winningTrades  |-> acc.winningTrades,
               losingTrades   |-> acc.losingTrades,
               winRate        |-> IF totalTrades > 0
                                  THEN JsMul(JsDiv(Num(acc.winningTrades, 1),
                                                   Num(totalTrades, 1)), Num(100, 1))
                                  ELSE Num(0, 1),
               totalProfit    |-> acc.totalProfit,
               totalLoss      |-> acc.totalLoss,
               expectancy     |-> IF totalTrades > 0
                                  THEN JsDiv(Num(totalGain, 1), Num(totalTrades, 1))
                                  ELSE Num(0, 1),
               profitFactor   |-> ProfitFactor(acc.totalProfit, acc.totalLoss),
               maxDrawdown    |-> acc.maxDrawdown,
               maxDrawdownPct |-> IF acc.peak > 0
                                  THEN JsMul(JsDiv(Num(acc.maxDrawdown, 1),
                                                   Num(acc.peak, 1)), Num(100, 1))
                                  ELSE Num(0, 1) ]

\* a tracker holding one of the histories, no position open
StatsInit ==
    /\ closedPositions \in Histories
    /\ disk = SavedPositions(closedPositions)
    /\ positions = [p \in Pairs |-> NoPosition]
    /\ lastCall = NoCall
    /\ opCount = 0
    /\ BotNotStarted /\ RiskManagerInit /\ NoCandidateYet /\ SizerInit
    /\ momentumInput = NoMomentumInput
    /\ momentumResult = NoMomentumResult
    /\ lastStats = NoStats
    /\ ClientsNotUsed

getPerformanceStats ==
    /\ lastStats' = GetPerformanceStats(closedPositions)
    /\ UNCHANGED <<ledgerVars, loopVars, riskVars, sizerVars, detectorVars, krakenVars, cacheVars>>

StatsNext == getPerformanceStats

SpecStats == StatsInit /\ [][StatsNext]_vars

\* ---------------------------------------------------------------------------
\* Properties of the statistics
\* ---------------------------------------------------------------------------

\* cumulative profit after the first n closed trades
RECURSIVE CumulativeProfit(_, _)
CumulativeProfit(history, n) ==
    IF n = 0 THEN 0 ELSE CumulativeProfit(history, n - 1) + history[n].currentProfit

\* highest cumulative profit up to trade i, 0 before the first trade
HighestUpTo(history, i) ==
    CHOOSE m \in {CumulativeProfit(history, k) : k \in 0..i} :
        \A k \in 0..i : m >= CumulativeProfit(history, k)

\* the largest peak-to-trough drop
LargestDrop(history) ==
    LET valid == { HighestUpTo(history, ij[1]) - CumulativeProfit(history, ij[2]) :
                     ij \in { p \in (0..Len(history)) \X (0..Len(history)) : p[1] <= p[2] } }
    IN  CHOOSE m \in valid : \A d \in valid : m >= d

\* C29: maxDrawdown is the largest peak-to-trough drop of the running
\* cumulative profit over the closed trades in history order
C29_MaxDrawdownIsLargestDrop ==
    lastStats # NoStats => lastStats.maxDrawdown = LargestDrop(closedPositions)

\* a history that rises, falls below its start and has a drawdown larger than
\* any single loss
C29_Witness ==
    /\ lastStats # NoStats
    /\ Len(closedPositions) = 3
    /\ closedPositions[1].currentProfit > 0
    /\ closedPositions[2].currentProfit < 0
    /\ closedPositions[3].currentProfit < 0
    /\ lastStats.maxDrawdown = 12

Finite(x) == x.kind = "num"

\* C30: with no closed position the statistics are all zero; for any history
\* profitFactor is totalProfit / totalLoss when totalLoss > 0, infinite only
\* when totalLoss = 0 and totalProfit > 0, and 0 otherwise, and no other field
\* is NaN or infinite
C30_StatsDefined ==
    lastStats # NoStats =>
        /\ Len(closedPositions) = 0 =>
             /\ \A f \in {"totalTrades", "winningTrades", "losingTrades", "totalProfit",
                           "totalLoss", "maxDrawdown"} : lastStats[f] = 0
             /\ \A f \in {"winRate", "expectancy", "profitFactor", "maxDrawdownPct"} :
                   Finite(lastStats[f]) /\ lastStats[f].num = 0
        /\ lastStats.totalLoss > 0 =>
             /\ Finite(lastStats.profitFactor)
             /\ lastStats.profitFactor.num * lastStats.totalLoss
                  = lastStats.totalProfit * lastStats.profitFactor.den
        /\ (lastStats.totalLoss = 0 /\ lastStats.totalProfit > 0) =>
             lastStats.profitFactor = Inf(1)
        /\ (lastStats.totalLoss = 0 /\ lastStats.totalProfit <= 0) =>
             lastStats.profitFactor = Num(0, 1)
        /\ Finite(lastStats.winRate)
        /\ Finite(lastStats.expectancy)
        /\ Finite(lastStats.maxDrawdownPct)

\* only break-even trades in the history: no profit and no loss to divide
C30_Witness ==
    /\ lastStats # NoStats
    /\ Len(closedPositions) = 2
    /\ lastStats.totalProfit = 0
    /\ lastStats.totalLoss = 0
    /\ lastStats.losingTrades = 2
    /\ lastStats.profitFactor = Num(0, 1)

\* ---------------------------------------------------------------------
\* Concurrent trades (config.ts:47, index.ts:313-381).
\* loadConfig reads MAX_CONCURRENT_TRADES into config.maxConcurrentTrades;
\* processPair and tryEntry never read it, so the value has no effect on
\* any action and is modelled as a setting the operator may choose.
MaxConcurrentTradesSettings == {1, 2}

\* C31: the number of simultaneously open positions never exceeds the
\* configured maximum of concurrent trades, whatever value is configured.
C31_OpenWithinMaxConcurrentTrades ==
    \A maxConcurrentTrades \in MaxConcurrentTradesSettings :
        Cardinality(OpenPairs) <= maxConcurrentTrades

\* ---------------------------------------------------------------------
\* Shutdown (index.ts:145-169).

\* C32: after stop() completes, every position that was open when the
\* shutdown began has been closed and moved to the closed history.
C32_StopClosesPositions ==
    [][Stop =>
        \A p \in Pairs :
            positions[p] # NoPosition =>
                /\ positions'[p] = NoPosition
                /\ \E n \in DOMAIN closedPositions' : closedPositions'[n].pair = p]_vars

\* ---------------------------------------------------------------------
\* KrakenClient.withRetry (KrakenClient.ts:53-100)
\* ---------------------------------------------------------------------
\* Time is counted in units of TimeUnitMs. An invocation is suspended at
\* three places: the rate-limit setTimeout ("rateWait"), the request
\* itself ("request", ended by its response, its error or the timeout of
\* withTimeout) and the backoff setTimeout ("backoff").

MaxCalls == 3

RequestDelay == REQUEST_DELAY_MS \div TimeUnitMs

\* what one attempt can end with: a result, or an error carrying a status
\* (429, 401, 403), or any other failure (5xx, Kraken error, timeout)
Outcomes == {"ok", "429", "401", "403", "other"}

RECURSIVE Pow2(_)
Pow2(n) == IF n = 0 THEN 1 ELSE 2 * Pow2(n - 1)

BackoffFixed(attempt) == 1000

\* l.91: Math.pow(2, attempt) * 1000
BackoffMs(attempt) == Pow2(attempt) * 1000

\* l.59-67: the head of the loop body for invocation c at the given attempt.
\* Within the delay the invocation is suspended for the remaining time;
\* otherwise lastCallTime is set and the request is issued at once.
LoopHead(c, attempt, outcome, backoffs) ==
    IF timeSinceLastCall < RequestDelay
    THEN /\ krakenCalls' = [krakenCalls EXCEPT ![c] =
                [pc |-> "rateWait", attempt |-> attempt,
                 timer |-> RequestDelay - timeSinceLastCall,
                 outcome |-> outcome, backoffs |-> backoffs]]
         /\ UNCHANGED <<timeSinceLastCall, lastGap>>
    ELSE /\ krakenCalls' = [krakenCalls EXCEPT ![c] =
                [pc |-> "request", attempt |-> attempt, timer |-> 0,
                 outcome |-> outcome, backoffs |-> backoffs]]
         /\ lastGap' = timeSinceLastCall
         /\ timeSinceLastCall' = 0

KrakenUnlessCalled == UNCHANGED <<ledgerVars, loopVars, riskVars, sizerVars, detectorVars, statsVars, cacheVars>>

\* a caller invokes withRetry (publicRequest or privateRequest)
withRetry(c) ==
    /\ krakenCalls[c].pc = "idle"
    /\ callsMade < MaxCalls
    /\ callsMade' = callsMade + 1
    /\ LoopHead(c, 0, "none", <<>>)
    /\ UNCHANGED isDegraded
    /\ KrakenUnlessCalled

\* l.62-67: the rate-limit timer fires; lastCallTime is set and the request
\* is issued without looking at lastCallTime again
RateWaitOver(c) ==
    /\ krakenCalls[c].pc = "rateWait"
    /\ krakenCalls[c].timer = 0
    /\ krakenCalls' = [krakenCalls EXCEPT ![c].pc = "request"]
    /\ lastGap' = timeSinceLastCall
    /\ timeSinceLastCall' = 0
    /\ UNCHANGED <<isDegraded, callsMade>>
    /\ KrakenUnlessCalled

\* l.68-93: the request of invocation c ends with the given outcome
RequestEnds(c, outcome) ==
    /\ krakenCalls[c].pc = "request"
    /\ LET call == krakenCalls[c]
           returned == [call EXCEPT !.pc = "idle", !.outcome = outcome]
       IN  CASE outcome = "ok" ->
                  /\ krakenCalls' = [krakenCalls EXCEPT ![c] = returned]
                  /\ UNCHANGED isDegraded
            [] outcome = "429" ->
                  /\ krakenCalls' = [krakenCalls EXCEPT ![c] = returned]
                  /\ isDegraded' = TRUE
            [] outcome \in {"401", "403"} ->
                  /\ krakenCalls' = [krakenCalls EXCEPT ![c] = returned]
                  /\ UNCHANGED isDegraded
            [] OTHER ->
                  /\ krakenCalls' = [krakenCalls EXCEPT ![c] =
                        IF call.attempt = MAX_RETRIES
                        THEN returned
                        ELSE [call EXCEPT !.pc = "backoff", !.outcome = outcome,
                                          !.timer = BackoffMs(call.attempt) \div TimeUnitMs,
                                          !.backoffs = Append(call.backoffs,
                                                              BackoffMs(call.attempt))]]
                  /\ UNCHANGED isDegraded
    /\ UNCHANGED <<timeSinceLastCall, lastGap, callsMade>>
    /\ KrakenUnlessCalled

\* l.96 and the next turn of the loop: the backoff timer fires
BackoffOver(c) ==
    /\ krakenCalls[c].pc = "backoff"
    /\ krakenCalls[c].timer = 0
    /\ LoopHead(c, krakenCalls[c].attempt + 1, krakenCalls[c].outcome, krakenCalls[c].backoffs)
    /\ UNCHANGED <<isDegraded, callsMade>>
    /\ KrakenUnlessCalled

\* resetDegradedMode()
resetDegradedMode ==
    /\ isDegraded
    /\ isDegraded' = FALSE
    /\ UNCHANGED <<krakenCalls, timeSinceLastCall, lastGap, callsMade>>
    /\ KrakenUnlessCalled

TimerDue == \E c \in Callers : krakenCalls[c].pc \in {"rateWait", "backoff"} /\ krakenCalls[c].timer = 0

\* one time unit passes; a timer that is due fires before more time passes
KrakenTick ==
    /\ ~TimerDue
    /\ \/ timeSinceLastCall < RequestDelay
       \/ \E c \in Callers : krakenCalls[c].timer > 0
    /\ timeSinceLastCall' = IF timeSinceLastCall < RequestDelay
                            THEN timeSinceLastCall + 1 ELSE timeSinceLastCall
    /\ krakenCalls' = [c \in Callers |->
            IF krakenCalls[c].timer > 0
            THEN [krakenCalls[c] EXCEPT !.timer = @ - 1]
            ELSE krakenCalls[c]]
    /\ UNCHANGED <<isDegraded, lastGap, callsMade>>
    /\ KrakenUnlessCalled

KrakenNext ==
    \/ \E c \in Callers : withRetry(c)
    \/ \E c \in Callers : RateWaitOver(c)
    \/ \E c \in Callers, outcome \in Outcomes : RequestEnds(c, outcome)
    \/ \E c \in Callers : BackoffOver(c)
    \/ resetDegradedMode
    \/ KrakenTick

SpecKraken == Init /\ [][KrakenNext]_vars

\* every request gets its response, its error or the timeout of withTimeout,
\* every timer fires and time passes
SpecKrakenFair ==
    /\ SpecKraken
    /\ WF_vars(KrakenTick)
    /\ \A c \in Callers :
        /\ WF_vars(RateWaitOver(c))
        /\ WF_vars(BackoffOver(c))
        /\ WF_vars(\E outcome \in Outcomes : RequestEnds(c, outcome))

\* C33: a request that fails with HTTP 429 is retried with exponential
\* backoff: the invocation does not give up on the first 429.
C33_RetriesOn429 ==
    [][\A c \in Callers :
          (RequestEnds(c, "429") /\ krakenCalls[c].attempt < MAX_RETRIES) =>
              /\ krakenCalls'[c].pc = "backoff"
              /\ krakenCalls'[c].timer = BackoffMs(krakenCalls[c].attempt) \div TimeUnitMs]_vars

\* C34: any two consecutive request attempts issued through the client
\* start at least REQUEST_DELAY_MS apart, also with several callers.
C34_AttemptsSpacedByRequestDelay ==
    lastGap # NoGap => lastGap >= RequestDelay

RequestEnded(c) == krakenCalls[c].pc = "request" /\ krakenCalls'[c].pc # "request"

AttemptsBounded ==
    \A c \in Callers :
        /\ krakenCalls[c].attempt + 1 <= 3
        /\ krakenCalls[c].backoffs \in {<<>>, <<1000>>, <<1000, 2000>>}
        /\ Len(krakenCalls[c].backoffs) =
              IF krakenCalls[c].pc = "backoff" THEN krakenCalls[c].attempt + 1
              ELSE krakenCalls[c].attempt

EndOfAttempt ==
    \A c \in Callers :
        RequestEnded(c) =>
            LET outcome == krakenCalls'[c].outcome
                rethrown == /\ krakenCalls'[c].pc = "idle"
                            /\ krakenCalls'[c].attempt = krakenCalls[c].attempt
            IN  /\ outcome \in Outcomes
                /\ outcome = "ok" => krakenCalls'[c].pc = "idle"
                /\ outcome \in {"401", "403"} => rethrown /\ isDegraded' = isDegraded
                /\ outcome = "429" => rethrown /\ isDegraded'
                /\ outcome = "other" =>
                      IF krakenCalls[c].attempt = 2
                      THEN rethrown
                      ELSE /\ krakenCalls'[c].pc = "backoff"
                           /\ krakenCalls'[c].timer * TimeUnitMs
                                 = (IF krakenCalls[c].attempt = 0 THEN 1000 ELSE 2000)

AiCacheMinutes == 15

\* CACHE_TTL_MS, in minutes
CACHE_TTL == AiCacheMinutes

MaxAiNow == 24

CacheSteps == {7, 8}

AiSlots == {1, 2}

\* what parseResponse can make of a completion
ParsedDecisions == {[decision |-> "BUY", confidence |-> 80],
                    [decision |-> "HOLD", confidence |-> 0]}

FallbackDecision == [decision |-> "HOLD", confidence |-> 0]

NeverExpired(entry, t) == FALSE

\* getFromCache l.174-175: age > cached.ttlMs
Expired(entry, t) == t - entry.timestamp > entry.ttlMs

\* getFromCache: the decision served for the key, or NoEntry (null)
GetFromCache(cache, cacheKey, t) ==
    IF cache[cacheKey] = NoEntry THEN NoEntry
    ELSE IF Expired(cache[cacheKey], t) THEN NoEntry
    ELSE cache[cacheKey]

\* getFromCache: the cache after the read (an expired entry is deleted)
CacheAfterRead(cache, cacheKey, t) ==
    IF cache[cacheKey] # NoEntry /\ Expired(cache[cacheKey], t)
    THEN [cache EXCEPT ![cacheKey] = NoEntry]
    ELSE cache

\* setCache
SetCache(cache, cacheKey, decision, t) ==
    [cache EXCEPT ![cacheKey] = [data |-> decision, timestamp |-> t, ttlMs |-> CACHE_TTL]]

CacheUnlessAsked == UNCHANGED <<ledgerVars, loopVars, riskVars, sizerVars, detectorVars, statsVars, krakenVars>>

\* decideEntry up to its return from the cache or to the await of the
\* completion call
decideEntry(slot, pair, price, rsi, volumeRatio) ==
    /\ \A k \in CacheKeys : <<slot, k>> \notin aiPending
    /\ LET cacheKey == GetCacheKey(pair, price, rsi, volumeRatio)
           cached == GetFromCache(responseCache, cacheKey, aiNow)
       IN  /\ responseCache' = CacheAfterRead(responseCache, cacheKey, aiNow)
           /\ IF cached # NoEntry
              THEN /\ lastServed' = [source |-> "cache", key |-> cacheKey,
                                     age |-> aiNow - cached.timestamp,
                                     data |-> cached.data]
                   /\ UNCHANGED aiPending
              ELSE /\ aiPending' = aiPending \cup {<<slot, cacheKey>>}
                   /\ UNCHANGED lastServed
    /\ UNCHANGED aiNow
    /\ CacheUnlessAsked

\* decideEntry after the await: the completion arrived and was parsed and
\* cached (ok), or the call failed and HOLD is returned uncached
CompletionReturns(slot, ok, decision) ==
    \E cacheKey \in CacheKeys :
        /\ <<slot, cacheKey>> \in aiPending
        /\ aiPending' = aiPending \ {<<slot, cacheKey>>}
        /\ IF ok
           THEN /\ responseCache' = SetCache(responseCache, cacheKey, decision, aiNow)
                /\ lastServed' = [source |-> "fresh", key |-> cacheKey, age |-> 0,
                                  data |-> decision]
           ELSE /\ UNCHANGED responseCache
                /\ lastServed' = [source |-> "fallback", key |-> cacheKey, age |-> 0,
                                  data |-> FallbackDecision]
        /\ UNCHANGED aiNow
        /\ CacheUnlessAsked

\* clearCache()
clearCache ==
    /\ \E k \in CacheKeys : responseCache[k] # NoEntry
    /\ responseCache' = [k \in CacheKeys |-> NoEntry]
    /\ UNCHANGED <<aiNow, aiPending, lastServed>>
    /\ CacheUnlessAsked

\* time passes
CacheElapse(minutes) ==
    /\ aiNow + minutes <= MaxAiNow
    /\ aiNow' = aiNow + minutes
    /\ UNCHANGED <<responseCache, aiPending, lastServed>>
    /\ CacheUnlessAsked

CacheNext ==
    \/ \E slot \in AiSlots, price \in CachePrices, rsi \in CacheRsi,
          volumeRatio \in CacheVolumeRatio :
            decideEntry(slot, "BTC/USD", price, rsi, volumeRatio)
    \/ \E slot \in AiSlots, ok \in BOOLEAN, decision \in ParsedDecisions :
            CompletionReturns(slot, ok, decision)
    \/ clearCache
    \/ \E minutes \in CacheSteps : CacheElapse(minutes)

SpecCache == Init /\ [][CacheNext]_vars

ReadOf(cacheKey) ==
    \E slot \in AiSlots, price \in CachePrices, rsi \in CacheRsi,
       volumeRatio \in CacheVolumeRatio :
        /\ GetCacheKey("BTC/USD", price, rsi, volumeRatio) = cacheKey
        /\ decideEntry(slot, "BTC/USD", price, rsi, volumeRatio)

ServedWithinTtl ==
    lastServed.source = "cache" => lastServed.age <= AiCacheMinutes

ExpiredDeletedOnRead ==
    \A k \in CacheKeys :
        (ReadOf(k) /\ responseCache[k] # NoEntry
                   /\ aiNow - responseCache[k].timestamp > AiCacheMinutes) =>
            /\ responseCache'[k] = NoEntry
            /\ \E slot \in AiSlots : <<slot, k>> \in aiPending' \ aiPending
            /\ lastServed' = lastServed

EvictedOnlyOnRead ==
    \A k \in CacheKeys :
        (responseCache[k] # NoEntry /\ responseCache'[k] = NoEntry) =>
            \/ clearCache
            \/ ReadOf(k) /\ aiNow - responseCache[k].timestamp > AiCacheMinutes

\* C35: the response cache never serves an expired entry: a cached
\* decision is returned only if its age is within the TTL, an older entry
\* is deleted when it is read and a fresh decision is requested, and an
\* entry leaves the cache only on a read of its key or by clearCache.
C35_CacheNeverServesExpired ==
    /\ []ServedWithinTtl
    /\ [][ExpiredDeletedOnRead /\ EvictedOnlyOnRead]_vars

\* an entry exactly as old as the TTL was served from the cache while the
\* other key has no entry
C35_Witness ==
    /\ lastServed.source = "cache"
    /\ lastServed.age = AiCacheMinutes
    /\ \E k \in CacheKeys : k # lastServed.key /\ responseCache[k] = NoEntry

\* ---------------------------------------------------------------------
\* Exits of monitorPosition (index.ts:453-537, 747-759)

\* the step closes the open position of the pair with the given reason
ClosesWith(pair, reason) ==
    /\ positions[pair] # NoPosition
    /\ positions'[pair] = NoPosition
    /\ Len(closedPositions') = Len(closedPositions) + 1
    /\ closedPositions'[Len(closedPositions')].pair = pair
    /\ closedPositions'[Len(closedPositions')].exitReason = reason

LevelsOf(ps, pair) == IF ps[pair] = NoPosition THEN 0 ELSE Len(ps[pair].pyramidLevels)

\* the tick of invocation i decides on an exit with the given reason: in
\* paper mode it closes the position at once, in live mode it goes on to the
\* sell order
DecidesExit(i, pair, reason) ==
    IF paperTrading
    THEN ClosesWith(pair, reason)
    ELSE /\ iters'[i].pc = "placeSell"
         /\ iters'[i].reason = reason

\* the decision of a tick: the first check that holds, in the order stop
\* loss, erosion cap, momentum failure, profit target; at most one exit; no
\* pyramid level in a tick that exits
TickDecision(i, price, signalsMet, writeOk) ==
    LET pair     == PairOf(iters[i])
        ps1      == UpdatePositionIn(positions, pair, price)
        stop     == price <= ps1[pair].stopLoss
        erosion  == CheckErosionCap(ps1, pair)
        momentum == MomentumShouldExit(ps1[pair], signalsMet)
        target   == price >= ps1[pair].profitTarget
        exits    == iters'[i].pc = "placeSell" \/ positions'[pair] = NoPosition
    IN  (PairDataArrives(i, TRUE, price, TRUE, signalsMet, writeOk)
            /\ positions[pair] # NoPosition) =>
          /\ stop => DecidesExit(i, pair, "Stop Loss")
          /\ (~stop /\ ~erosion /\ momentum /\ target) =>
                DecidesExit(i, pair, "Momentum Failure")
          /\ Len(closedPositions') <= Len(closedPositions) + 1
          /\ exits => /\ iters'[i].pc \notin {"decidePyramid", "placePyramid"}
                      /\ LevelsOf(positions', pair) <= LevelsOf(positions, pair)

\* when the sell order of a tick that found the price at or below the stop
\* has returned, the position is closed and the reason recorded for it is
\* "Stop Loss"
StopLossExitIsMade(i) ==
    LET pair == PairOf(iters[i])
    IN  (iters[i].pc = "placeSell" /\ iters'[i].pc # "placeSell"
            /\ iters[i].reason = "Stop Loss") =>
            /\ positions'[pair] = NoPosition
            /\ \E n \in DOMAIN closedPositions' :
                  /\ closedPositions'[n].pair = pair
                  /\ closedPositions'[n].exitReason = iters[i].reason
                  /\ \A m \in DOMAIN closedPositions' :
                        m > n => closedPositions'[m].pair # pair

ExitPrecedenceAtDecision ==
    [][\A i \in Slots, price \in LoopPrices, signalsMet \in BOOLEAN, writeOk \in LoopWrites :
          TickDecision(i, price, signalsMet, writeOk)]_vars

\* C36: within one monitoring tick at most one exit is performed, with
\* precedence stop loss, erosion cap, momentum failure, profit target: a
\* price at or below the stop closes the position in that tick with
\* reason "Stop Loss", momentum failure wins over profit target, and no
\* pyramid level is added in a tick in which the position is closed.
C36_OneExitPerTickInOrder ==
    [][/\ \A i \in Slots, price \in LoopPrices, signalsMet \in BOOLEAN,
             writeOk \in LoopWrites : TickDecision(i, price, signalsMet, writeOk)
       /\ \A i \in Slots : StopLossExitIsMade(i)]_vars

\* ---------------------------------------------------------------------
\* Orders and the ledger in live mode (index.ts:386-448, 696-737, 747-759)

\* the invocations awaiting an order of the given kind for the pair
AwaitingOrder(pc, pair) == {i \in Slots : iters[i].pc = pc /\ PairOf(iters[i]) = pair}

\* C37: in live mode, under any interleaving of trading iterations, no
\* second buy order is placed for an instrument whose position is being
\* opened and no second sell order for a position whose close is awaiting
\* its order.
C37_OneOrderPerPosition ==
    ~paperTrading =>
        \A pair \in Pairs :
            /\ Cardinality(AwaitingOrder("placeBuy", pair)) <= 1
            /\ Cardinality(AwaitingOrder("placeSell", pair)) <= 1

PositionRecorded(pair) == positions[pair] = NoPosition /\ positions'[pair] # NoPosition

LevelRecorded(pair) == LevelsOf(positions', pair) > LevelsOf(positions, pair)

PositionMovedToClosed(pair) ==
    /\ Len(closedPositions') > Len(closedPositions)
    /\ closedPositions'[Len(closedPositions')].pair = pair

\* C38: in live mode the ledger changes only after the matching order was
\* placed: a position or a pyramid level is recorded only in the step in
\* which placeOrder returned an order id for that buy, and a position is
\* moved to the closed history only in the step in which the sell order
\* for it returned an order id.
C38_LedgerFollowsOrders ==
    [][~paperTrading =>
        \A pair \in Pairs :
            /\ PositionRecorded(pair) =>
                  \E i \in AwaitingOrder("placeBuy", pair) : BuyOrderReturns(i, TRUE)
            /\ LevelRecorded(pair) =>
                  \E i \in AwaitingOrder("placePyramid", pair) : PyramidOrderReturns(i, TRUE)
            /\ PositionMovedToClosed(pair) =>
                  \E i \in AwaitingOrder("placeSell", pair), writeOk \in LoopWrites :
                      SellOrderReturns(i, writeOk, TRUE)]_vars

\* ---------------------------------------------------------------------
\* The profit target of stage 5 in an entry attempt (index.ts:336-357)

\* config.profitTargetPct in ten-thousandths, the unit of calculateCosts
ConfiguredProfitTarget == ProfitTargetPct * 10

\* C39: in an entry attempt the profit target evaluated by stage 5 is the
\* configured profit-target fraction, so the verdict of stage 5 is the
\* verdict for that fraction whatever the instrument's price.
C39_StageFiveUsesConfiguredFraction ==
    (lastFilter.op = "tryEntry" /\ lastFilter.result.stage = 5) =>
        /\ lastFilter.profitTarget = ConfiguredProfitTarget
        /\ lastFilter.result =
              CheckCostFloor(CalculateCosts(candidate.pair, ConfiguredProfitTarget))

====
